---- MODULE Spec2Model ----
(***************************************************************************)
(* Fence Planner: the fence requirements calculation engine                *)
(* (fence_calculator/utils.py) over a material catalog and a fence type.   *)
(*                                                                         *)
(* Number representation.  Python Decimals are modelled as integers on a   *)
(* fixed grid:                                                             *)
(*   - input decimals (lengths, spacings, roll lengths, rates, prices) are *)
(*     counted in thousandths ("mills"): 100 m is 100000, 12.50 is 12500;  *)
(*   - every value produced by quantize_2 is counted in hundredths         *)
(*     ("cents"): 200.00 is 20000.                                         *)
(* The results' float(...) conversions are exact for two-decimal values of *)
(* the magnitudes reached here (fewer than 15 significant digits), so a    *)
(* reported float is the cents value it was converted from.                *)
(* An optional value (Python None or a value) is <<>> or <<v>>.            *)
(***************************************************************************)
EXTENDS Integers, Sequences, FiniteSets, TLC

VARIABLES
    catalog,      \* Material table: id -> row
    fence_type,   \* the FenceType row handed to the engine
    args,         \* arguments of calculate_fence_requirements
    pc,           \* "ready" before the call, "returned" after, "recalculated" after a second call
    result,       \* the dictionary returned by the last call (NoResult before)
    prev_length,  \* fence_length of the call before the last one (None if none)
    prev_result,  \* its result
    request,      \* the HTTP request handed to the calculate view (NoRequest if none)
    response,     \* the view's response (NoResponse before)
    engine_calls, \* calls of calculate_fence_requirements made by the view
    calculations, \* FenceCalculation table: pk -> row
    saving,       \* the Material instances the last handler passed to save(): id -> the
                  \* instance as it stood when save() was called
    scrape_run,   \* the run of scrape_prices_now just finished (NoRun when the last
                  \* operation was another): per selected material its base, parsed
                  \* and new price, and the count returned
    material_costs, \* the material_costs mapping of the calculation being reported, as
                  \* its (key, item) pairs in iteration order
    combined_materials  \* the mapping combine_duplicate_materials returned for it

vars == <<catalog, fence_type, args, pc, result, prev_length, prev_result,
          request, response, engine_calls, calculations, saving, scrape_run,
          material_costs, combined_materials>>

\* the state of the web application and the record of Material saves
site_vars == <<request, response, engine_calls, calculations, saving, scrape_run>>

\* the state of a report being generated
report_vars == <<material_costs, combined_materials>>

----------------------------------------------------------------------------
(* Optional values *)

None == <<>>
Some(v) == <<v>>
IsNone(o) == o = <<>>
Val(o) == o[1]

\* Python truthiness of an optional number: None and 0 are falsy.
Truthy(o) == o # <<>> /\ o[1] # 0

Max(a, b) == IF a >= b THEN a ELSE b
Min(a, b) == IF a <= b THEN a ELSE b

----------------------------------------------------------------------------
(* Decimal helpers *)

\* Nearest integer to n / d (d > 0), ties to the even neighbour: the default
\* rounding (ROUND_HALF_EVEN) of Decimal.quantize.
RoundHalfEven(n, d) ==
    LET q == n \div d
        r == n % d
    IN  IF 2 * r < d THEN q
        ELSE IF 2 * r > d THEN q + 1
        ELSE IF q % 2 = 0 THEN q ELSE q + 1

\* quantize_2(d): d.quantize(Decimal('0.01')).  The argument is the rational
\* n / den expressed in cents; the value is the rounded number of cents.
quantize_2(n, den) == RoundHalfEven(n, den)

\* ceil_div(a, b): int((a / b).to_integral_value(rounding=ROUND_UP)); a and b
\* in the same unit, b # 0.  ROUND_UP rounds away from zero.
ceil_div(a, b) ==
    IF a >= 0 THEN (a + b - 1) \div b
    ELSE -(((-a) + b - 1) \div b)

----------------------------------------------------------------------------
(* settings.py *)

LABOR_RATE_PER_HOUR == 55
WIRE_ROLL_LENGTH == 500
BUILD_RATE_METERS_PER_HOUR == 20
STAPLES_ENABLED == TRUE
STAPLES_MATERIAL_NAME == "U Staples (Box of 2000)"
STAPLES_PER_BOX == 2000
\* 183.99, in cents
STAPLES_DEFAULT_PRICE == 18399
STAPLES_PER_WIRE_PER_LINE_POST == 1
STAPLES_PER_WIRE_PER_END_POST == 2
STAPLES_PER_POST_FOR_NETTING == 4

\* Decimal(str(n)) of a whole number n, in mills.
Dec(n) == n * 1000

----------------------------------------------------------------------------
(* models.py: Material rows *)

Material(name, default_price, current_price, roll_length, is_active) ==
    [name |-> name, default_price |-> default_price,
     current_price |-> current_price, roll_length |-> roll_length,
     is_active |-> is_active]

\* mutant: save() always takes current_price from default_price
MaterialSave_rederiving(m) == [m EXCEPT !.current_price = Some(m.default_price)]

\* Material.save(): current_price is materialised from default_price when absent.
MaterialSave(m) ==
    IF IsNone(m.current_price)
    THEN [m EXCEPT !.current_price = Some(m.default_price)]
    ELSE m

\* str.lower() on the names and choices that occur in the catalogs and
\* arguments below.
lower(s) ==
    CASE s = "2.5/7 inch Strainer" -> "2.5/7 inch strainer"
      [] s = "2.5/7 INCH STRAINER" -> "2.5/7 inch strainer"
      [] s = "Deer Posts" -> "deer posts"
      [] s = "DEER POSTS" -> "deer posts"
      [] s = "5 inch stay posts" -> "5 inch stay posts"
      [] s = "5 Inch Stay Posts" -> "5 inch stay posts"
      [] s = "Electric Outrigger Wire" -> "electric outrigger wire"
      [] s = "Outrigger Insulator" -> "outrigger insulator"
      [] s = "Outrigger Connectors" -> "outrigger connectors"
      [] s = "U Staples (Box of 2000)" -> "u staples (box of 2000)"
      [] s = "u staples (box of 2000)" -> "u staples (box of 2000)"
      [] s = "Triplex" -> "triplex"
      [] s = "TRIPLEX" -> "triplex"
      [] s = "Bullnose Insulator" -> "bullnose insulator"
      [] s = "bullnose insulator" -> "bullnose insulator"
      [] s = "Claw Insulator" -> "claw insulator"
      [] s = "5inch posts" -> "5inch posts"
      [] s = "Wire - 2.5mm HT" -> "wire - 2.5mm ht"
      [] s = "Wire - Barb" -> "wire - barb"
      [] s = "Deer Netting" -> "deer netting"
      [] s = "Standed Netting" -> "standed netting"
      [] s = "Fence length" -> "fence length"
      [] s = "Labor rate" -> "labor rate"
      [] s = "Build rate" -> "build rate"
      [] s = "Post spacing" -> "post spacing"
      [] s = "Wire count" -> "wire count"
      [] s = "Hot wire count" -> "hot wire count"
      [] s = "Staples per box" -> "staples per box"
      [] s = "Deer" -> "deer"
      [] s = "True" -> "true"
      [] s = "False" -> "false"
      [] s = "YES" -> "yes"
      [] OTHER -> s

\* Material.objects.filter(name=..., is_active=True).first(): the matching
\* active row of lowest id, or None.
FirstActiveByName(cat, name) ==
    LET hits == {i \in DOMAIN cat : cat[i].is_active /\ cat[i].name = name}
    IN  IF hits = {} THEN None
        ELSE Some(CHOOSE i \in hits : \A j \in hits : i <= j)

\* Material.objects.filter(name__iexact=..., is_active=True).first()
FirstActiveByNameIexact(cat, name) ==
    LET hits == {i \in DOMAIN cat :
                    cat[i].is_active /\ lower(cat[i].name) = lower(name)}
    IN  IF hits = {} THEN None
        ELSE Some(CHOOSE i \in hits : \A j \in hits : i <= j)

----------------------------------------------------------------------------
(* Catalogs: the Material table as a tuple of rows, a row's id its index. *)

\* seed_initial_data: every row saved with current_price = default_price.
CatalogSeed == <<
    Material("5inch posts", 12500, Some(12500), None, TRUE),
    Material("Wire - 2.5mm HT", 139000, Some(139000), Some(500000), TRUE),
    Material("Wire - Barb", 200000, Some(200000), Some(240000), TRUE),
    Material("Deer Netting", 310000, Some(310000), Some(100000), TRUE),
    Material("Standed Netting", 210000, Some(210000), Some(100000), TRUE),
    Material("Electric Outrigger Wire", 120000, Some(120000), Some(400000), TRUE),
    Material("Bullnose Insulator", 2460, Some(2460), None, TRUE),
    Material("Claw Insulator", 690, Some(690), None, TRUE),
    Material("2.5/7 inch Strainer", 37700, Some(37700), None, TRUE),
    Material("Deer Posts", 19500, Some(19500), None, TRUE),
    Material("Outrigger Insulator", 1200, Some(1200), None, TRUE),
    Material("Outrigger Connectors", 38000, Some(38000), None, TRUE) >>

\* The seeded catalog plus the rows the engine looks up by name that the seed
\* does not create (stay posts, triplex, the staples material).
CatalogFull == CatalogSeed \o <<
    Material("5 Inch Stay Posts", 21000, Some(21000), None, TRUE),
    Material("Triplex", 9950, Some(9950), None, TRUE),
    MaterialSave(Material("U Staples (Box of 2000)", 183990, None, None, TRUE)) >>

\* A catalog with absent or zero roll lengths, a zero current price, inactive
\* rows and names that differ in case from the names the engine looks up.
CatalogSparse == <<
    Material("5inch posts", 12500, Some(0), None, TRUE),
    Material("Wire - 2.5mm HT", 139000, Some(141500), None, TRUE),
    Material("Wire - Barb", 200000, Some(200000), Some(0), TRUE),
    Material("Deer Netting", 310000, Some(310000), None, TRUE),
    Material("Standed Netting", 210000, Some(210000), Some(0), TRUE),
    Material("Electric Outrigger Wire", 120000, Some(120000), Some(400000), FALSE),
    Material("bullnose insulator", 2460, Some(2460), None, TRUE),
    Material("Claw Insulator", 690, Some(690), None, FALSE),
    Material("2.5/7 INCH STRAINER", 37700, Some(37700), None, TRUE),
    Material("DEER POSTS", 19500, Some(19500), None, TRUE),
    Material("Outrigger Insulator", 1200, Some(1200), None, FALSE),
    Material("TRIPLEX", 9950, Some(9950), None, TRUE),
    Material("u staples (box of 2000)", 183990, Some(0), None, TRUE) >>

\* The full catalog with the strainer material deactivated.
CatalogNoStrainer == [CatalogFull EXCEPT ![9].is_active = FALSE]

Catalogs == {CatalogSeed, CatalogFull, CatalogSparse, CatalogNoStrainer}

----------------------------------------------------------------------------
(* models.py: FenceType rows.  Material references are optional ids. *)

FenceTypeRow(name, post_spacing, wire_count, requires_strainers, post_material, wire_material, barb_wire_material, netting_material) ==
    [name |-> name, post_spacing |-> post_spacing, wire_count |-> wire_count,
     requires_strainers |-> requires_strainers,
     post_material |-> post_material, wire_material |-> wire_material,
     barb_wire_material |-> barb_wire_material,
     netting_material |-> netting_material]

FenceTypes == {
    FenceTypeRow("2_wire_electric", 8000, 2, TRUE, Some(1), Some(2), None, None),
    FenceTypeRow("9_wire_barb", 5000, 3, TRUE, Some(1), Some(2), Some(3), None),
    FenceTypeRow("netting_hot", 6000, 1, TRUE, Some(1), Some(2), Some(2), Some(5)),
    FenceTypeRow("deer", 6000, 0, TRUE, Some(10), Some(6), None, Some(4)),
    FenceTypeRow("3_wire_electric", 2500, 3, FALSE, None, None, None, None) }

----------------------------------------------------------------------------
(* utils.py: calculate_fence_requirements.  Each local variable of the     *)
(* function is an operator of the values it is computed from; the function *)
(* body binds them in order (see calculate_fence_requirements below).      *)

\* spacing = post_spacing_override if post_spacing_override else fence_type.post_spacing
spacing(ft, a) ==
    IF Truthy(a.post_spacing_override) THEN Val(a.post_spacing_override)
    ELSE ft.post_spacing

\* mutant: floor division in place of the ceiling
posts_required_floor(fence_length, sp) == (fence_length \div sp) + 1

posts_required(fence_length, sp) == ceil_div(fence_length, sp) + 1

\* netting_type = (netting_type or 'none').lower(), 'none' unless a known choice
netting_type(a) ==
    LET n == lower(a.netting_type)
    IN  IF n \in {"none", "sheep", "deer"} THEN n ELSE "none"

\* mutant: the deer and sheep heights exchanged
netting_height_cm_swapped(nt) ==
    IF nt = "deer" THEN Some(120)
    ELSE IF nt = "sheep" THEN Some(200)
    ELSE None

\* in centimetres; None for no netting
netting_height_cm(nt) ==
    IF nt = "deer" THEN Some(200)
    ELSE IF nt = "sheep" THEN Some(120)
    ELSE None

\* twt = (top_wire_type or 'standard').lower(), 'standard' unless a known choice
twt(a) ==
    LET t == IF IsNone(a.top_wire_type) THEN "standard"
             ELSE lower(Val(a.top_wire_type))
    IN  IF t \in {"standard", "hot", "barb"} THEN t ELSE "standard"

total_wires(ft, a) ==
    IF ~IsNone(a.wire_count_override) THEN Max(Val(a.wire_count_override), 0)
    ELSE ft.wire_count

special_wires(t, hot_wire_count, total) ==
    IF t = "hot" /\ Truthy(hot_wire_count) /\ total > 0
        THEN Min(Val(hot_wire_count), total)
    ELSE IF t = "barb" /\ total > 0 THEN 1
    ELSE IF t = "hot" /\ total > 0 THEN 1
    ELSE 0

standard_wires(total, special) == Max(total - special, 0)

\* quantize_2(Decimal(wires) * fence_length), in cents of a metre; used for
\* standard_wire_len_m, special_wire_len_m and wire_length_meters
wire_len_m(wires, fence_length) == quantize_2(wires * fence_length, 10)

\* mutant: no fallback to settings.WIRE_ROLL_LENGTH
get_roll_length_no_fallback(cat, material) ==
    IF ~IsNone(material) /\ ~IsNone(cat[Val(material)].roll_length)
    THEN Val(cat[Val(material)].roll_length)
    ELSE 0

\* get_roll_length(material): the material's roll length when it has a
\* non-zero one, else settings.WIRE_ROLL_LENGTH (mills)
get_roll_length(cat, material) ==
    IF ~IsNone(material) /\ Truthy(cat[Val(material)].roll_length)
    THEN Val(cat[Val(material)].roll_length)
    ELSE Dec(WIRE_ROLL_LENGTH)

\* mutant: the operands of ceil_div swapped
wire_rolls_swapped(cat, len_m, material) ==
    IF len_m > 0 /\ ~IsNone(material)
    THEN ceil_div(get_roll_length(cat, material), len_m * 10)
    ELSE 0

\* mutant: whole rolls only (floor division)
wire_rolls_floor(cat, len_m, material) ==
    IF len_m > 0 /\ ~IsNone(material)
    THEN (len_m * 10) \div get_roll_length(cat, material)
    ELSE 0

\* rolls for a wire length (cents) of a material; 0 when there is no length
\* or no material (lines 85-88 and 100-102)
wire_rolls(cat, len_m, material) ==
    IF len_m > 0 /\ ~IsNone(material)
    THEN ceil_div(len_m * 10, get_roll_length(cat, material))
    ELSE 0

\* mutant: the barb wire reuses the standard wire material
special_wire_material_ignoring_barb(ft, t, special_len_m) ==
    IF special_len_m > 0 /\ t \in {"hot", "barb"} THEN ft.wire_material ELSE None

\* special_wire_material as chosen at lines 90-98, before the combination
special_wire_material_chosen(ft, t, special_len_m) ==
    IF special_len_m > 0
    THEN IF t = "hot" THEN ft.wire_material
         ELSE IF t = "barb"
              THEN IF ~IsNone(ft.barb_wire_material) THEN ft.barb_wire_material
                   ELSE ft.wire_material
         ELSE None
    ELSE None

\* Labor.  lr and br in mills; labor_hours and labor_cost in cents.
lr(a) == IF ~IsNone(a.labor_rate) THEN Val(a.labor_rate) ELSE Dec(LABOR_RATE_PER_HOUR)
br(a) == IF ~IsNone(a.build_rate) THEN Val(a.build_rate) ELSE Dec(BUILD_RATE_METERS_PER_HOUR)
\* mutant: hours truncated instead of rounded
labor_hours_truncated(fence_length, b) == (100 * fence_length) \div b
labor_hours(fence_length, b) == quantize_2(100 * fence_length, b)
labor_cost(hours, l) == quantize_2(hours * l, 1000)

\* mutant: the overrides are not consulted
eff_price_no_override(cat, price_overrides, material) ==
    IF IsNone(material) THEN 0
    ELSE IF Truthy(cat[Val(material)].current_price)
         THEN Val(cat[Val(material)].current_price)
    ELSE cat[Val(material)].default_price

\* eff_price(material): the override stored under str(material.id) if any,
\* else current_price or default_price (a zero current price is falsy); mills.
eff_price(cat, price_overrides, material) ==
    IF IsNone(material) THEN 0
    ELSE IF ToString(Val(material)) \in DOMAIN price_overrides
         THEN price_overrides[ToString(Val(material))]
    ELSE IF Truthy(cat[Val(material)].current_price)
         THEN Val(cat[Val(material)].current_price)
    ELSE cat[Val(material)].default_price

\* One material_costs entry: unit_price and cost are quantized separately from
\* the unrounded price p.  ref is the Material row the entry was priced from
\* (None when priced from settings); it is not a key of the Python dictionary.
line_item(material_name, p, quantity, ref) ==
    [material |-> material_name,
     unit_price |-> quantize_2(p, 10),
     quantity |-> quantity,
     cost |-> quantize_2(p * quantity, 10),
     ref |-> ref]

\* the entry for a catalog material under its own name
material_item(cat, price_overrides, material, quantity) ==
    line_item(cat[Val(material)].name, eff_price(cat, price_overrides, material),
              quantity, material)

NoItems == [k \in {} |-> None]

\* mutant: the combination never happens
wire_combined_never(ft, special_material) == FALSE

\* "If special wire uses same material as standard, combine them"
wire_combined(ft, special_material) ==
    /\ ~IsNone(special_material)
    /\ ~IsNone(ft.wire_material)
    /\ Val(special_material) = Val(ft.wire_material)

total_standard_wire_rolls(combined, standard_rolls, special_rolls) ==
    IF combined THEN standard_rolls + special_rolls ELSE standard_rolls

\* special_wire_rolls and special_wire_material after the combination
special_wire_rolls(combined, special_rolls) == IF combined THEN 0 ELSE special_rolls
special_wire_material(combined, special_material) ==
    IF combined THEN None ELSE special_material

\* mutant: the special wire rolls are left out of the total
wire_rolls_required_standard_only(total_standard_rolls, special_rolls) ==
    total_standard_rolls

wire_rolls_required(total_standard_rolls, special_rolls) ==
    total_standard_rolls + special_rolls

\* mutant: a default roll of 100 m
netting_roll_length_default_100(cat, material) ==
    IF Truthy(cat[Val(material)].roll_length)
    THEN Val(cat[Val(material)].roll_length)
    ELSE Dec(100)

\* netting_material.roll_length or Decimal('50'), mills
netting_roll_length(cat, material) ==
    IF Truthy(cat[Val(material)].roll_length)
    THEN Val(cat[Val(material)].roll_length)
    ELSE Dec(50)

netting_rolls_required(ft, cat, fence_length) ==
    IF ~IsNone(ft.netting_material)
    THEN ceil_div(fence_length, netting_roll_length(cat, ft.netting_material))
    ELSE 0

(* Staples *)
\* mutant: the hot wires are stapled too
stapled_wires_all(t, total, standard) == total
stapled_wires(t, total, standard) == IF t # "hot" THEN total ELSE standard
end_posts(posts) == IF posts >= 2 THEN 2 ELSE posts
line_posts(posts, ends) == Max(posts - ends, 0)
line_staples(lines, stapled) == lines * stapled * STAPLES_PER_WIRE_PER_LINE_POST
end_staples(ends, stapled) == ends * stapled * STAPLES_PER_WIRE_PER_END_POST
netting_staples(ft, posts) ==
    IF ~IsNone(ft.netting_material) THEN posts * STAPLES_PER_POST_FOR_NETTING ELSE 0
spb(a) ==
    IF Truthy(a.staples_per_box) /\ Val(a.staples_per_box) > 0
    THEN Val(a.staples_per_box) ELSE STAPLES_PER_BOX
boxes(staples, per_box) == IF per_box > 0 THEN ceil_div(staples, per_box) ELSE 0

staple_counts(ft, a, t, posts, total, standard) ==
    IF STAPLES_ENABLED
    THEN LET stapled == stapled_wires(t, total, standard)
             ends == end_posts(posts)
             lines == line_posts(posts, ends)
             all == line_staples(lines, stapled) + end_staples(ends, stapled)
                    + netting_staples(ft, posts)
         IN [staples_per_box_used |-> spb(a),
             line_staples |-> line_staples(lines, stapled),
             end_staples |-> end_staples(ends, stapled),
             netting_staples |-> netting_staples(ft, posts),
             total_staples |-> all,
             boxes |-> boxes(all, spb(a))]
    ELSE NoItems

staples_mat(cat) == FirstActiveByNameIexact(cat, STAPLES_MATERIAL_NAME)

staples_items(cat, price_overrides, counts) ==
    IF STAPLES_ENABLED /\ counts.boxes > 0
    THEN LET m == staples_mat(cat)
         IN  "staples" :>
                (IF ~IsNone(m)
                 THEN material_item(cat, price_overrides, m, counts.boxes)
                 ELSE line_item(STAPLES_MATERIAL_NAME, STAPLES_DEFAULT_PRICE * 10,
                                counts.boxes, None))
    ELSE NoItems

(* Insulators for hot wires *)
\* mutant: two bullnose insulators per wire whatever the number of posts
bullnose_per_wire_two(posts) == 2
bullnose_per_wire(posts) == IF posts >= 2 THEN 2 ELSE Max(posts, 0)
claw_per_wire(posts) == Max(posts - 2, 0)

insulator_counts(t, posts, num_hot_wires) ==
    IF t = "hot"
    THEN [bullnose |-> bullnose_per_wire(posts) * num_hot_wires,
          claw |-> claw_per_wire(posts) * num_hot_wires,
          hot_wires |-> num_hot_wires]
    ELSE NoItems

\* f"{name} (for {n} hot wires)" / f"{name} (for hot wire)"
material_label(name, n) ==
    IF n > 1 THEN name \o " (for " \o ToString(n) \o " hot wires)"
    ELSE IF n = 1 THEN name \o " (for hot wire)"
    ELSE name

bullnose_mat(cat) == FirstActiveByName(cat, "Bullnose Insulator")
claw_mat(cat) == FirstActiveByName(cat, "Claw Insulator")

\* the insulators_bullnose / insulators_claw entry for material m (lines 241-270)
insulator_items(key, cat, price_overrides, t, m, qty, num_hot_wires) ==
    IF t = "hot" /\ ~IsNone(m) /\ qty > 0
    THEN key :> line_item(material_label(cat[Val(m)].name, num_hot_wires),
                          eff_price(cat, price_overrides, m), qty, m)
    ELSE NoItems

(* Strainers, stay posts, triplex *)
interval_m(nt) == IF nt = "deer" THEN Dec(50) ELSE Dec(100)

total_recommended_strainers(fence_length, interval) ==
    IF fence_length > 0
    THEN Max(ceil_div(fence_length, interval), 2)
    ELSE ceil_div(fence_length, interval)

additional_strainers(total) == Max(total - 2, 0)

recommended_strainers_info(fence_length, interval) ==
    [terrain |-> "standard",
     interval_meters_used |-> interval,
     recommended_strainers_total |-> total_recommended_strainers(fence_length, interval),
     recommended_strainers_intermediate |->
        additional_strainers(total_recommended_strainers(fence_length, interval))]

strainer_mat(cat) == FirstActiveByNameIexact(cat, "2.5/7 inch Strainer")

strainers_items(ft, cat, price_overrides, qty) ==
    IF ft.requires_strainers
    THEN LET m == strainer_mat(cat)
         IN  IF ~IsNone(m)
             THEN "strainers" :> material_item(cat, price_overrides, m, qty)
             ELSE NoItems
    ELSE NoItems

stay_posts_mat(cat, nt) ==
    LET deer == IF nt = "deer" THEN FirstActiveByNameIexact(cat, "Deer Posts")
                ELSE None
    IN  IF ~IsNone(deer) THEN deer
        ELSE FirstActiveByNameIexact(cat, "5 inch stay posts")

\* mutant: no floor of 2
stay_posts_qty_unfloored(fence_length, interval) == ceil_div(fence_length, interval)
stay_posts_qty(fence_length, interval) == Max(ceil_div(fence_length, interval), 2)

stay_posts_items(cat, price_overrides, nt, fence_length) ==
    IF fence_length > 0
    THEN LET m == stay_posts_mat(cat, nt)
         IN  IF ~IsNone(m)
             THEN "stay_posts" :>
                    material_item(cat, price_overrides, m,
                                  stay_posts_qty(fence_length, interval_m(nt)))
             ELSE NoItems
    ELSE NoItems

triplex_mat(cat) == FirstActiveByName(cat, "Triplex")
triplex_qty(fence_length) == ceil_div(fence_length, Dec(500))

triplex_items(cat, price_overrides, fence_length) ==
    IF fence_length > 0
    THEN LET m == triplex_mat(cat)
         IN  IF ~IsNone(m)
             THEN "triplex" :> material_item(cat, price_overrides, m,
                                             triplex_qty(fence_length))
             ELSE NoItems
    ELSE NoItems

(* Totals *)

\* the sum of v['cost'] over the entries of a material_costs mapping, cents
RECURSIVE SumCosts(_, _)
SumCosts(mc, keys) ==
    IF keys = {} THEN 0
    ELSE LET k == CHOOSE x \in keys : TRUE
         IN  mc[k].cost + SumCosts(mc, keys \ {k})

\* lines 329-332, over material_costs as it stands there
total_material_cost(mc) == quantize_2(SumCosts(mc, DOMAIN mc), 1)

total_cost(material_total, labor) == quantize_2(material_total + labor, 1)

(* Optional electric outrigger components *)
\* mutant: no fallback to the fence type's wire material
outrigger_wire_mat_no_fallback(ft, cat) ==
    FirstActiveByNameIexact(cat, "Electric Outrigger Wire")

outrigger_wire_mat(ft, cat) ==
    LET m == FirstActiveByNameIexact(cat, "Electric Outrigger Wire")
    IN  IF ~IsNone(m) THEN m ELSE ft.wire_material

outrigger_insulator_mat(cat) == FirstActiveByNameIexact(cat, "Outrigger Insulator")
outrigger_connector_mat(cat) == FirstActiveByNameIexact(cat, "Outrigger Connectors")
connector_qty(posts) == Max(2, (posts \div 50) + 1)

\* the entries added at lines 338-377, after the totals
outrigger_items(ft, cat, a, posts) ==
    IF a.electric_outrigger
    THEN LET w == outrigger_wire_mat(ft, cat)
             i == outrigger_insulator_mat(cat)
             c == outrigger_connector_mat(cat)
         IN  (IF ~IsNone(w)
              THEN "outrigger_wire" :>
                     material_item(cat, a.price_overrides, w,
                                   ceil_div(a.fence_length, get_roll_length(cat, w)))
              ELSE NoItems)
             @@
             (IF ~IsNone(i)
              THEN "outrigger_insulators" :>
                     material_item(cat, a.price_overrides, i, posts)
              ELSE NoItems)
             @@
             (IF ~IsNone(c)
              THEN "outrigger_connectors" :>
                     material_item(cat, a.price_overrides, c, connector_qty(posts))
              ELSE NoItems)
    ELSE NoItems

\* outrigger_details, read off the entries just added
outrigger_details(items) ==
    (IF "outrigger_wire" \in DOMAIN items
     THEN "wire_rolls" :> items["outrigger_wire"].quantity ELSE NoItems)
    @@
    (IF "outrigger_insulators" \in DOMAIN items
     THEN "insulators" :> items["outrigger_insulators"].quantity ELSE NoItems)
    @@
    (IF "outrigger_connectors" \in DOMAIN items
     THEN "connectors" :> items["outrigger_connectors"].quantity ELSE NoItems)

----------------------------------------------------------------------------
(* The call *)

\* A division by a zero Decimal raises (DivisionByZero / InvalidOperation):
\* the divisions the call performs, each with the condition it is reached under.
Raises(ft, cat, a) ==
    LET t == twt(a)
        total == total_wires(ft, a)
        special == special_wires(t, a.hot_wire_count, total)
        special_len == wire_len_m(special, a.fence_length)
        special_mat == special_wire_material_chosen(ft, t, special_len)
    IN
    \/ spacing(ft, a) = 0
    \/ /\ wire_len_m(standard_wires(total, special), a.fence_length) > 0
       /\ ~IsNone(ft.wire_material)
       /\ get_roll_length(cat, ft.wire_material) = 0
    \/ /\ special_len > 0 /\ ~IsNone(special_mat)
       /\ get_roll_length(cat, special_mat) = 0
    \/ br(a) = 0
    \/ /\ ~IsNone(ft.netting_material)
       /\ netting_roll_length(cat, ft.netting_material) = 0
    \/ /\ a.electric_outrigger /\ ~IsNone(outrigger_wire_mat(ft, cat))
       /\ get_roll_length(cat, outrigger_wire_mat(ft, cat)) = 0

NoResult == [status |-> "none"]
Raised == [status |-> "raised"]

\* calculate_fence_requirements(fence_type, fence_length, ...): the returned
\* dictionary (lines 379-400), or Raised.  Lengths and money in cents, rates in
\* mills.
calculate_fence_requirements(ft, cat, a) ==
    IF Raises(ft, cat, a) THEN Raised
    ELSE
    LET po == a.price_overrides
        sp == spacing(ft, a)
        posts == posts_required(a.fence_length, sp)
        nt == netting_type(a)
        t == twt(a)
        total == total_wires(ft, a)
        special == special_wires(t, a.hot_wire_count, total)
        standard == standard_wires(total, special)
        standard_len == wire_len_m(standard, a.fence_length)
        special_len == wire_len_m(special, a.fence_length)
        standard_rolls == wire_rolls(cat, standard_len, ft.wire_material)
        special_mat_0 == special_wire_material_chosen(ft, t, special_len)
        special_rolls_0 == wire_rolls(cat, special_len, special_mat_0)
        hours == labor_hours(a.fence_length, br(a))
        labor == labor_cost(hours, lr(a))
        posts_items ==
            IF ~IsNone(ft.post_material)
            THEN "posts" :> material_item(cat, po, ft.post_material, posts)
            ELSE NoItems
        combined == wire_combined(ft, special_mat_0)
        total_standard_rolls ==
            total_standard_wire_rolls(combined, standard_rolls, special_rolls_0)
        special_rolls == special_wire_rolls(combined, special_rolls_0)
        special_mat == special_wire_material(combined, special_mat_0)
        wire_standard_items ==
            IF ~IsNone(ft.wire_material) /\ total_standard_rolls > 0
            THEN "wire_standard" :>
                    material_item(cat, po, ft.wire_material, total_standard_rolls)
            ELSE NoItems
        wire_top_items ==
            IF special_rolls > 0 /\ ~IsNone(special_mat)
            THEN ("wire_top_" \o t) :> material_item(cat, po, special_mat, special_rolls)
            ELSE NoItems
        netting_rolls == netting_rolls_required(ft, cat, a.fence_length)
        netting_items ==
            IF ~IsNone(ft.netting_material) /\ netting_rolls > 0
            THEN "netting" :> material_item(cat, po, ft.netting_material, netting_rolls)
            ELSE NoItems
        staples == staple_counts(ft, a, t, posts, total, standard)
        bullnose_qty == bullnose_per_wire(posts) * special
        claw_qty == claw_per_wire(posts) * special
        interval == interval_m(nt)
        strainers == total_recommended_strainers(a.fence_length, interval)
        at_total ==
            posts_items @@ wire_standard_items @@ wire_top_items @@ netting_items
            @@ staples_items(cat, po, staples)
            @@ insulator_items("insulators_bullnose", cat, po, t, bullnose_mat(cat),
                               bullnose_qty, special)
            @@ insulator_items("insulators_claw", cat, po, t, claw_mat(cat),
                               claw_qty, special)
            @@ strainers_items(ft, cat, po, strainers)
            @@ stay_posts_items(cat, po, nt, a.fence_length)
            @@ triplex_items(cat, po, a.fence_length)
        material_total == total_material_cost(at_total)
        outrigger == outrigger_items(ft, cat, a, posts)
    IN
    [status |-> "ok",
     posts_required |-> posts,
     post_spacing_used |-> quantize_2(sp, 10),
     wire_count_used |-> total,
     wire_length_meters |-> wire_len_m(total, a.fence_length),
     wire_rolls_required |-> wire_rolls_required(total_standard_rolls, special_rolls),
     labor_hours |-> hours,
     labor_rate_per_hour |-> lr(a),
     build_rate_per_hour |-> br(a),
     labor_cost |-> labor,
     material_costs |-> at_total @@ outrigger,
     total_material_cost |-> material_total,
     total_cost |-> total_cost(material_total, labor),
     insulator_counts |-> insulator_counts(t, posts, special),
     strainer_recommendation |-> recommended_strainers_info(a.fence_length, interval),
     staple_counts |-> staples,
     netting_type |-> nt,
     netting_height_cm |-> netting_height_cm(nt),
     netting_rolls_required |-> netting_rolls,
     electric_outrigger |-> a.electric_outrigger,
     electric_outrigger_details |-> outrigger_details(outrigger)]

----------------------------------------------------------------------------
(* Arguments.  The sets follow the input contract of                       *)
(* validate_fence_calculation_input, widened by a zero fence length and a  *)
(* zero hot wire count, which the engine itself accepts.                   *)

MaxWireCountOverride == 2
MaxHotWireCount == 2

\* fence_length, mills: 0, 33.335 m, 60 m, 100 m, 250 m, 520 m
Lengths == {0, 33335, 60000, 100000, 250000, 520000}

\* (labor_rate, build_rate, staples_per_box, post_spacing_override): the
\* optional fields all absent, or all supplied
OptionalChoices ==
    {<<None, None, None, None>>, <<Some(42500), Some(30000), Some(50), Some(12500)>>}

\* (top_wire_type, hot_wire_count): a hot wire count only comes with 'hot'
TopWireChoices ==
    {<<None, None>>, <<Some("standard"), None>>, <<Some("barb"), None>>}
    \cup {<<Some("hot"), h>> : h \in {None} \cup {Some(n) : n \in 0..MaxHotWireCount}}

\* (netting_type, electric_outrigger): the outrigger only comes with deer netting
NettingChoices ==
    {<<"none", FALSE>>, <<"sheep", FALSE>>, <<"deer", FALSE>>, <<"deer", TRUE>>}

WireCountOverrides == {None} \cup {Some(n) : n \in 0..MaxWireCountOverride}

\* price_overrides: str(material.id) -> price (mills)
PriceOverrideChoices == {
    ("1" :> 15000) @@ ("2" :> 150000),
    ("2" :> 149995) @@ ("3" :> 0) @@ ("4" :> 305555) @@ ("6" :> 120005)
        @@ ("7" :> 2465) @@ ("9" :> 37705) @@ ("10" :> 19999) @@ ("13" :> 175) }

Args ==
    {[fence_length |-> l, labor_rate |-> r[1], build_rate |-> r[2],
      staples_per_box |-> r[3], price_overrides |-> po,
      top_wire_type |-> t[1], hot_wire_count |-> t[2],
      post_spacing_override |-> r[4], wire_count_override |-> wo,
      netting_type |-> n[1], electric_outrigger |-> n[2]] :
        l \in Lengths, r \in OptionalChoices, po \in PriceOverrideChoices,
        t \in TopWireChoices,
        wo \in WireCountOverrides, n \in NettingChoices}

----------------------------------------------------------------------------
(* The state machine: a caller holding a catalog, a fence type and a       *)
(* request invokes the engine, and may invoke it again with another length.*)

NoRequest == [method |-> "none"]
NoSaves == [i \in {} |-> None]
NoRun == [mats |-> NoSaves, updated |-> 0]
NoResponse == [status |-> 0]

\* no request has been received and no Material is being edited
SiteIdle ==
    /\ request = NoRequest
    /\ response = NoResponse
    /\ engine_calls = 0
    /\ calculations = <<>>
    /\ saving = NoSaves
    /\ scrape_run = NoRun
    /\ material_costs = <<>>
    /\ combined_materials = <<>>

Init ==
    /\ catalog \in Catalogs
    /\ fence_type \in FenceTypes
    /\ args \in Args
    /\ pc = "ready"
    /\ result = NoResult
    /\ prev_length = None
    /\ prev_result = NoResult
    /\ SiteIdle

\* mutant: the engine writes the overridden prices into the catalog
Calculate_storing_prices ==
    /\ pc = "ready"
    /\ result' = calculate_fence_requirements(fence_type, catalog, args)
    /\ pc' = "returned"
    /\ catalog' = [i \in DOMAIN catalog |->
                     IF ToString(i) \in DOMAIN args.price_overrides
                     THEN [catalog[i] EXCEPT
                            !.current_price = Some(args.price_overrides[ToString(i)])]
                     ELSE catalog[i]]
    /\ UNCHANGED <<fence_type, args, prev_length, prev_result>>
    /\ UNCHANGED site_vars
    /\ UNCHANGED report_vars

Calculate ==
    /\ pc = "ready"
    /\ result' = calculate_fence_requirements(fence_type, catalog, args)
    /\ pc' = "returned"
    /\ UNCHANGED <<catalog, fence_type, args, prev_length, prev_result>>
    /\ UNCHANGED site_vars
    /\ UNCHANGED report_vars

Recalculate ==
    /\ pc = "returned"
    /\ \E l \in Lengths :
        /\ l > args.fence_length
        /\ args' = [args EXCEPT !.fence_length = l]
        /\ result' = calculate_fence_requirements(fence_type, catalog, args')
    /\ prev_length' = Some(args.fence_length)
    /\ prev_result' = result
    /\ pc' = "recalculated"
    /\ UNCHANGED <<catalog, fence_type>>
    /\ UNCHANGED site_vars
    /\ UNCHANGED report_vars

Next == Calculate \/ Recalculate

Spec == Init /\ [][Next]_vars

----------------------------------------------------------------------------
(* Request payloads.  A JSON value is a tagged record: a string, a boolean, *)
(* a mapping (price overrides: key -> price in mills), a list, or null     *)
(* (Python None, also what data.get returns for a missing key).            *)

JVal(t, s, b, d) == [t |-> t, s |-> s, b |-> b, d |-> d]
Str(s) == JVal("str", s, FALSE, <<>>)
Bool(b) == JVal("bool", "", b, <<>>)
Dict(d) == JVal("dict", "", FALSE, d)
List == JVal("list", "", FALSE, <<>>)
JNull == JVal("null", "", FALSE, <<>>)

\* data.get(key, default)
Get(data, key, default) == IF key \in DOMAIN data THEN data[key] ELSE default

\* value is None or value == ""   /   value in (None, "")
Blank(value) == value = JNull \/ value = Str("")

\* Python truthiness of a JSON value (a list stands for a non-empty list)
truthy(value) ==
    IF value.t = "str" THEN value.s # ""
    ELSE IF value.t = "bool" THEN value.b
    ELSE IF value.t = "dict" THEN DOMAIN value.d # {}
    ELSE value.t = "list"

\* str(value)
str(value) ==
    IF value.t = "str" THEN value.s
    ELSE IF value.t = "bool" THEN (IF value.b THEN "True" ELSE "False")
    ELSE IF value.t = "null" THEN "None"
    ELSE IF value.t = "dict" THEN "{...}"
    ELSE "[...]"

\* str.strip() on the texts that occur in the payloads below
strip(s) ==
    CASE s = " deer " -> "deer"
      [] s = " on " -> "on"
      [] s = " Wire - 2.5mm HT " -> "Wire - 2.5mm HT"
      [] OTHER -> s

\* Decimal(text): the value in mills, or None when the text is no decimal
\* literal (InvalidOperation)
ParseDecimal(s) ==
    CASE s = "100.0" -> Some(100000)
      [] s = "300.0" -> Some(300000)
      [] s = "0.01" -> Some(10)
      [] s = "0.005" -> Some(5)
      [] s = "0" -> Some(0)
      [] s = "-5" -> Some(-5000)
      [] s = "50000" -> Some(50000000)
      [] s = "50000.01" -> Some(50000010)
      [] s = "55.0" -> Some(55000)
      [] s = "60.0" -> Some(60000)
      [] s = "1000.5" -> Some(1000500)
      [] s = "8.0" -> Some(8000)
      [] s = "6.0" -> Some(6000)
      [] s = "12" -> Some(12000)
      [] s = "2" -> Some(2000)
      [] s = "1" -> Some(1000)
      [] s = "3" -> Some(3000)
      [] s = "21" -> Some(21000)
      [] s = "2.5" -> Some(2500)
      [] s = "139.00" -> Some(139000)
      [] s = "139.06" -> Some(139060)
      [] s = "500" -> Some(500000)
      [] s = "-1" -> Some(-1000)
      [] OTHER -> None

\* int(text): the integer, or None when the text is no integer literal
\* (ValueError)
ParseInt(s) ==
    CASE s = "0" -> Some(0)
      [] s = "1" -> Some(1)
      [] s = "2" -> Some(2)
      [] s = "3" -> Some(3)
      [] s = "12" -> Some(12)
      [] s = "21" -> Some(21)
      [] s = "-5" -> Some(-5)
      [] s = "50000" -> Some(50000)
      [] s = "4" -> Some(4)
      [] OTHER -> None

----------------------------------------------------------------------------
(* validators.py.  A validator returns Valid(v), or Invalid(message) where *)
(* the code raises ValidationError(message).                               *)

Valid(v) == [ok |-> TRUE, v |-> v]
Invalid(message) == [ok |-> FALSE, error |-> message]

\* mutant: a text that is no decimal is taken as the smallest valid value
validate_positive_decimal_lenient(value, field_name, max_value, allow_zero) ==
    IF Blank(value) THEN Invalid(field_name \o " is required")
    ELSE LET d == IF value.t = "str" THEN ParseDecimal(value.s) ELSE None
             decimal_value == IF IsNone(d) THEN 10 ELSE Val(d)
             min_value == IF allow_zero THEN 0 ELSE 10
         IN  IF decimal_value < min_value
             THEN IF allow_zero THEN Invalid(field_name \o " cannot be negative")
                  ELSE Invalid(field_name \o " must be greater than 0")
             ELSE IF max_value # 0 /\ decimal_value > max_value
             THEN Invalid(field_name \o " cannot exceed " \o ToString(max_value \div 1000))
             ELSE Valid(decimal_value)

\* validate_positive_decimal(value, field_name, max_value, allow_zero):
\* max_value in mills, 0 standing for no maximum; the value in mills
validate_positive_decimal(value, field_name, max_value, allow_zero) ==
    IF Blank(value) THEN Invalid(field_name \o " is required")
    ELSE LET d == IF value.t = "str" THEN ParseDecimal(value.s) ELSE None
         IN  IF IsNone(d)
             THEN Invalid("Invalid " \o lower(field_name) \o " format")
             ELSE LET decimal_value == Val(d)
                      min_value == IF allow_zero THEN 0 ELSE 10
                  IN  IF decimal_value < min_value
                      THEN IF allow_zero
                           THEN Invalid(field_name \o " cannot be negative")
                           ELSE Invalid(field_name \o " must be greater than 0")
                      ELSE IF max_value # 0 /\ decimal_value > max_value
                      THEN Invalid(field_name \o " cannot exceed "
                                   \o ToString(max_value \div 1000))
                      ELSE Valid(decimal_value)

\* validate_positive_integer(value, field_name, max_value, allow_zero)
validate_positive_integer(value, field_name, max_value, allow_zero) ==
    IF Blank(value) THEN Invalid(field_name \o " is required")
    ELSE LET i == IF value.t = "str" THEN ParseInt(value.s)
                  ELSE IF value.t = "bool" THEN Some(IF value.b THEN 1 ELSE 0)
                  ELSE None
         IN  IF IsNone(i)
             THEN Invalid("Invalid " \o lower(field_name) \o " format")
             ELSE LET int_value == Val(i)
                      min_value == IF allow_zero THEN 0 ELSE 1
                  IN  IF int_value < min_value
                      THEN IF allow_zero
                           THEN Invalid(field_name \o " cannot be negative")
                           ELSE Invalid(field_name \o " must be greater than 0")
                      ELSE IF max_value # 0 /\ int_value > max_value
                      THEN Invalid(field_name \o " cannot exceed " \o ToString(max_value))
                      ELSE Valid(int_value)

\* '", "'.join(choices)
RECURSIVE join(_)
join(choices) ==
    IF Len(choices) = 0 THEN ""
    ELSE IF Len(choices) = 1 THEN choices[1]
    ELSE choices[1] \o "\", \"" \o join(Tail(choices))

\* validate_choice(value, field_name, choices): choices is a list
validate_choice(value, field_name, choices) ==
    IF Blank(value) THEN Invalid(field_name \o " is required")
    ELSE IF \A i \in DOMAIN choices : choices[i] # str(value)
         THEN Invalid(field_name \o " must be one of: \"" \o join(choices) \o "\"")
    ELSE Valid(str(value))

\* an optional field: absent, null or "" gives None, else the validated value
Optional(value, validated) ==
    IF Blank(value) THEN Valid(None)
    ELSE IF validated.ok THEN Valid(Some(validated.v))
    ELSE validated

\* netting_str of lines 174-179
netting_str(data) ==
    LET n == lower(strip(str(Get(data, "netting_type",
                                 Get(data, "netting", Str("none"))))))
    IN  IF n \in {"yes", "true"} THEN "sheep"
        ELSE IF n \in {"no", "false", ""} THEN "none"
        ELSE n

\* outrigger_bool of lines 187-193
outrigger_bool(data) ==
    LET raw == Get(data, "electric_outrigger", Bool(FALSE))
    IN  IF raw.t = "bool" THEN raw.b
        ELSE IF Blank(raw) THEN FALSE
        ELSE lower(strip(str(raw))) \in {"1", "true", "yes", "on"}

\* the hot wire count of lines 262-276, given the validated top wire type and
\* wire count
validate_hot_wire_count(data, top_wire_type, wire_count_override) ==
    LET raw == Get(data, "hot_wire_count", JNull)
    IN  IF top_wire_type = Some("hot") /\ ~Blank(raw)
        THEN LET hot_wires == validate_positive_integer(raw, "Hot wire count", 20, FALSE)
             IN  IF ~hot_wires.ok THEN hot_wires
                 ELSE IF /\ ~IsNone(wire_count_override)
                         /\ Val(wire_count_override) > 0
                         /\ hot_wires.v > Val(wire_count_override)
                      THEN Invalid("Hot wire count (" \o ToString(hot_wires.v)
                                   \o ") cannot exceed total wire count ("
                                   \o ToString(Val(wire_count_override)) \o ")")
                 ELSE Valid(Some(hot_wires.v))
        ELSE Valid(None)

\* validate_fence_calculation_input(data): Valid(validated) or the first
\* ValidationError in the order of the code
validate_fence_calculation_input(data) ==
    LET netting == validate_choice(Str(netting_str(data)), "Netting type",
                                   <<"none", "sheep", "deer">>)
        deer == netting.ok /\ netting.v = "deer"
        fence_length ==
            validate_positive_decimal(Get(data, "fence_length", JNull),
                                      "Fence length", 50000000, FALSE)
        labor_rate ==
            Optional(Get(data, "labor_rate", JNull),
                     validate_positive_decimal(Get(data, "labor_rate", JNull),
                                               "Labor rate", 1000000, FALSE))
        build_rate ==
            Optional(Get(data, "build_rate", JNull),
                     validate_positive_decimal(Get(data, "build_rate", JNull),
                                               "Build rate", 1000000, FALSE))
        raw_top == Get(data, "top_wire_type", JNull)
        top_wire_type ==
            IF truthy(raw_top)
            THEN LET choice == validate_choice(raw_top, "Top wire type",
                                               <<"standard", "hot", "barb">>)
                 IN  IF choice.ok THEN Valid(Some(choice.v)) ELSE choice
            ELSE Valid(None)
        post_spacing ==
            Optional(Get(data, "post_spacing", JNull),
                     validate_positive_decimal(Get(data, "post_spacing", JNull),
                                               "Post spacing",
                                               IF deer THEN 10000 ELSE 50000, FALSE))
        wire_count ==
            Optional(Get(data, "wire_count", JNull),
                     validate_positive_integer(Get(data, "wire_count", JNull),
                                               "Wire count", 20, deer))
        hot_wire_count ==
            validate_hot_wire_count(data, top_wire_type.v, wire_count.v)
        staples_per_box ==
            Optional(Get(data, "staples_per_box", JNull),
                     validate_positive_integer(Get(data, "staples_per_box", JNull),
                                               "Staples per box", 100000, FALSE))
        price_overrides == Get(data, "price_overrides", Dict(<<>>))
    IN  IF ~netting.ok THEN netting
        ELSE IF ~fence_length.ok THEN fence_length
        ELSE IF ~labor_rate.ok THEN labor_rate
        ELSE IF ~build_rate.ok THEN build_rate
        ELSE IF ~top_wire_type.ok THEN top_wire_type
        ELSE IF ~post_spacing.ok THEN post_spacing
        ELSE IF ~wire_count.ok THEN wire_count
        ELSE IF ~hot_wire_count.ok THEN hot_wire_count
        ELSE IF ~staples_per_box.ok THEN staples_per_box
        ELSE IF price_overrides.t # "dict"
             THEN Invalid("Price overrides must be a dictionary")
        ELSE Valid([netting_type |-> netting.v,
                    electric_outrigger |-> IF deer THEN outrigger_bool(data) ELSE FALSE,
                    fence_length |-> fence_length.v,
                    labor_rate |-> labor_rate.v,
                    build_rate |-> build_rate.v,
                    top_wire_type |-> top_wire_type.v,
                    post_spacing_override |-> post_spacing.v,
                    wire_count_override |-> wire_count.v,
                    hot_wire_count |-> hot_wire_count.v,
                    staples_per_box |-> staples_per_box.v,
                    price_overrides |-> price_overrides.d])

----------------------------------------------------------------------------
(* views.py: calculate *)

\* JsonResponse(body, status=status)
JsonResponse(body, status) == [status |-> status, body |-> body]

\* FenceType.objects.filter(name=name, is_active=True).first(): the table
\* holds the one (active) fence type of the state
FenceTypeByName(ft, name) == IF ft.name = name THEN Some(ft) ELSE None

\* the keyword arguments of the engine call at lines 76-86: build_rate,
\* netting_type and electric_outrigger are not passed and take their defaults
view_engine_args(validated_data) ==
    [fence_length |-> validated_data.fence_length,
     labor_rate |-> validated_data.labor_rate,
     build_rate |-> None,
     staples_per_box |-> validated_data.staples_per_box,
     price_overrides |-> validated_data.price_overrides,
     top_wire_type |-> validated_data.top_wire_type,
     hot_wire_count |-> validated_data.hot_wire_count,
     post_spacing_override |-> validated_data.post_spacing_override,
     wire_count_override |-> validated_data.wire_count_override,
     netting_type |-> "none",
     electric_outrigger |-> FALSE]

\* FenceCalculation.objects.create(...) of lines 88-102 as the row it inserts
FenceCalculationRow(pk, ft, validated_data, results) ==
    [pk |-> pk,
     fence_type |-> ft.name,
     fence_length |-> validated_data.fence_length,
     posts_required |-> results.posts_required,
     wire_length_meters |-> results.wire_length_meters,
     wire_rolls_required |-> results.wire_rolls_required,
     labor_hours |-> results.labor_hours,
     labor_rate_per_hour |-> results.labor_rate_per_hour,
     labor_cost |-> results.labor_cost,
     material_costs |-> results.material_costs,
     total_material_cost |-> results.total_material_cost,
     total_cost |-> results.total_cost,
     price_overrides |-> validated_data.price_overrides]

\* The steps of the view inside its try block (lines 36-68): the response it
\* returns there, or "proceed" with the fence type selected.  A KeyError
\* raised by validated_data['netting'] is caught by `except Exception`.
view_try_block(req, ft) ==
    IF ~req.json_ok /\ req.content_type = "application/json"
    THEN [returns |-> TRUE, response |-> JsonResponse("error" :> "Invalid JSON format", 400)]
    ELSE LET validated == validate_fence_calculation_input(req.data)
         IN  IF ~validated.ok
             THEN [returns |-> TRUE,
                   response |-> JsonResponse("error" :> validated.error, 400)]
             ELSE IF "netting" \notin DOMAIN validated.v
             THEN [returns |-> TRUE,
                   response |-> JsonResponse("error" :> "An unexpected error occurred", 500)]
             ELSE LET selected ==
                        IF validated.v["netting"] = "yes"
                        THEN FenceTypeByName(ft, "deer")
                        ELSE FenceTypeByName(ft, "2_wire_electric")
                  IN  IF IsNone(selected)
                      THEN [returns |-> TRUE,
                            response |-> JsonResponse("error" :> "No suitable fence type found", 400)]
                      ELSE [returns |-> FALSE, fence_type |-> Val(selected),
                            validated_data |-> validated.v]

\* the arguments: (netting_type, fence_length, wire_count, top_wire_type,
\* post_spacing, further fields)
PayloadNetting ==
    {<<>>, "netting_type" :> Str("none"), "netting_type" :> Str(" deer "),
     "netting_type" :> Str("Deer"), "netting_type" :> Str("goat"),
     "netting" :> Str("YES"), "netting" :> Bool(FALSE), "netting_type" :> Str("")}

PayloadLength ==
    {<<>>} \cup
    {"fence_length" :> v :
        v \in {Str("100.0"), Str("300.0"), Str("invalid"), Str(""), Str("0"),
               Str("0.005"), Str("0.01"), Str("-5"), Str("50000"),
               Str("50000.01"), JNull, List}}

PayloadWires ==
    {<<>>,
     ("wire_count" :> Str("2")) @@ ("top_wire_type" :> Str("standard")),
     ("wire_count" :> Str("0")),
     ("wire_count" :> Str("2.5")),
     ("wire_count" :> Str("21")),
     ("top_wire_type" :> Str("electric")),
     ("top_wire_type" :> Str("hot")) @@ ("hot_wire_count" :> Str("1")),
     ("wire_count" :> Str("0")) @@ ("top_wire_type" :> Str("hot"))
        @@ ("hot_wire_count" :> Str("1")),
     ("wire_count" :> Str("2")) @@ ("top_wire_type" :> Str("hot"))
        @@ ("hot_wire_count" :> Str("3")),
     ("wire_count" :> Str("2")) @@ ("top_wire_type" :> Str("barb"))
        @@ ("hot_wire_count" :> Str("3"))}

PayloadSpacing ==
    {<<>>, "post_spacing" :> Str("8.0"), "post_spacing" :> Str("6.0"),
     "post_spacing" :> Str("12"), "post_spacing" :> Str("invalid")}

PayloadOther ==
    {<<>>,
     "labor_rate" :> Str("55.0"),
     ("labor_rate" :> Str("60.0")) @@ ("electric_outrigger" :> Bool(TRUE)),
     ("labor_rate" :> Str("1000.5")),
     ("build_rate" :> Str("0")),
     ("staples_per_box" :> Str("0")),
     ("staples_per_box" :> Str("50000")) @@ ("electric_outrigger" :> Str(" on ")),
     ("price_overrides" :> Dict(("1" :> 15000) @@ ("2" :> 149995))),
     ("price_overrides" :> Dict("1" :> -5000)),
     ("price_overrides" :> List)}

\* every netting, length and further field together, and every wire and
\* spacing field with a valid length
Payloads ==
    {n @@ l @@ o :
        n \in PayloadNetting, l \in PayloadLength, o \in PayloadOther}
    \cup
    {n @@ ("fence_length" :> Str("100.0")) @@ w @@ s :
        n \in {<<>>, "netting_type" :> Str("none"), "netting_type" :> Str(" deer ")},
        w \in PayloadWires, s \in PayloadSpacing}

Requests ==
    {[method |-> "POST", content_type |-> "application/json", json_ok |-> TRUE,
      data |-> d] : d \in Payloads}
    \cup {[method |-> m, content_type |-> c, json_ok |-> j, data |-> <<>>] :
            m \in {"GET", "POST"},
            c \in {"application/json", "application/x-www-form-urlencoded"},
            j \in BOOLEAN}

\* no engine call is being prepared by a direct caller
NoArgs == [fence_length |-> 0]

\* The site with the seeded catalog and one fence type, a request arriving.
InitView ==
    /\ catalog = CatalogFull
    /\ fence_type \in FenceTypes
    /\ args = NoArgs
    /\ pc = "ready"
    /\ result = NoResult
    /\ prev_length = None
    /\ prev_result = NoResult
    /\ request \in Requests
    /\ response = NoResponse
    /\ engine_calls = 0
    /\ calculations = <<>>
    /\ saving = NoSaves
    /\ scrape_run = NoRun
    /\ material_costs = <<>>
    /\ combined_materials = <<>>

\* calculate(request), lines 32-105
calculate ==
    /\ pc = "ready"
    /\ pc' = "responded"
    /\ IF request.method # "POST"
       THEN /\ response' = JsonResponse("error" :> "POST required", 405)
            /\ UNCHANGED <<engine_calls, calculations, result>>
       ELSE \E tried \in {view_try_block(request, fence_type)} :
            IF tried.returns
            THEN /\ response' = tried.response
                 /\ UNCHANGED <<engine_calls, calculations, result>>
            ELSE \E a \in {view_engine_args(tried.validated_data)} :
                 \E results \in {calculate_fence_requirements(tried.fence_type, catalog, a)} :
                    /\ engine_calls' = engine_calls + 1
                    /\ result' = results
                    /\ IF results = Raised
                       THEN /\ response' = JsonResponse(<<>>, 500)
                            /\ UNCHANGED calculations
                       ELSE /\ calculations' =
                                    Append(calculations,
                                           FenceCalculationRow(Len(calculations) + 1,
                                               tried.fence_type, tried.validated_data,
                                               results))
                            /\ response' =
                                    JsonResponse(("calculation_id" :> Len(calculations) + 1)
                                                 @@ results, 200)
    /\ UNCHANGED report_vars
    /\ UNCHANGED <<catalog, fence_type, args, prev_length, prev_result, request, saving,
                   scrape_run>>

NextView == calculate

SpecView == InitView /\ [][NextView]_vars

----------------------------------------------------------------------------
(* The Material table under the operations that write it: creation, the    *)
(* admin change form, the settings API, the price scraper and the          *)
(* ensure_staples_material command.  Prices in mills.                      *)

MaxMaterials == 2
MaxPrice == 139060

MaterialNames == <<"Test Post", STAPLES_MATERIAL_NAME>>
DefaultPrices == {139000, MaxPrice}
CurrentPrices == {0, 139000, MaxPrice}

\* m.save() for the instances `instances` (id -> instance): the table after
\* the saves; a new id appends a row
SaveAll(cat, instances) ==
    [i \in DOMAIN cat \cup DOMAIN instances |->
        IF i \in DOMAIN instances THEN MaterialSave(instances[i]) ELSE cat[i]]

\* Material.objects.create(name=..., default_price=..., [current_price=...])
\* and the admin add form; names are unique
material_create ==
    /\ Len(catalog) < MaxMaterials
    /\ \E n \in 1..Len(MaterialNames), d \in DefaultPrices,
          c \in {None} \cup {Some(v) : v \in CurrentPrices}, act \in BOOLEAN :
        /\ \A i \in DOMAIN catalog : catalog[i].name # MaterialNames[n]
        /\ LET m == Material(MaterialNames[n], d, c, None, act)
               id == Len(catalog) + 1
           IN  /\ saving' = (id :> m)
               /\ catalog' = SaveAll(catalog, id :> m)
    /\ pc' = "created"
    /\ response' = NoResponse
    /\ scrape_run' = NoRun
    /\ UNCHANGED report_vars
    /\ UNCHANGED <<fence_type, args, result, prev_length, prev_result,
                   request, engine_calls, calculations>>

\* the admin change form of MaterialAdmin: any of default_price,
\* current_price (may be left blank) and is_active edited, then save()
admin_change_material ==
    /\ \E i \in DOMAIN catalog, d \in DefaultPrices,
          c \in {None} \cup {Some(v) : v \in CurrentPrices}, act \in BOOLEAN :
        LET m == [catalog[i] EXCEPT !.default_price = d, !.current_price = c,
                                    !.is_active = act]
        IN  /\ saving' = (i :> m)
            /\ catalog' = SaveAll(catalog, i :> m)
    /\ pc' = "changed"
    /\ response' = NoResponse
    /\ scrape_run' = NoRun
    /\ UNCHANGED report_vars
    /\ UNCHANGED <<fence_type, args, result, prev_length, prev_result,
                   request, engine_calls, calculations>>

\* validate_material_update_input(data) for the fields of the model (id,
\* current_price, roll_length)
validate_material_update_input(data) ==
    LET material_id == validate_positive_integer(Get(data, "id", JNull),
                                                 "Material ID", 0, FALSE)
        raw_price == Get(data, "current_price", JNull)
        current_price ==
            IF raw_price # JNull
            THEN validate_positive_decimal(raw_price, "Current price", 999999000, TRUE)
            ELSE Valid(None)
        raw_roll == Get(data, "roll_length", JNull)
        roll_length ==
            IF raw_roll # JNull /\ raw_roll # Str("")
            THEN validate_positive_decimal(raw_roll, "Roll length", 10000000, FALSE)
            ELSE Valid(None)
    IN  IF ~material_id.ok THEN material_id
        ELSE IF ~current_price.ok THEN current_price
        ELSE IF ~roll_length.ok THEN roll_length
        ELSE Valid([material_id |-> material_id.v,
                    current_price |->
                        IF raw_price # JNull THEN Some(current_price.v) ELSE None,
                    roll_length |->
                        IF raw_roll # JNull /\ raw_roll # Str("")
                        THEN Some(roll_length.v) ELSE None])

MaterialUpdatePayloads ==
    {("id" :> Str(i)) @@ p @@ r :
        i \in {"1", "2", "3", "invalid"},
        p \in {<<>>, "current_price" :> Str("0"), "current_price" :> Str("139.00"),
               "current_price" :> Str("139.06"), "current_price" :> Str("-1")},
        r \in {<<>>, "roll_length" :> Str("500"), "roll_length" :> Str("")}}

\* settings_api_update_material(request) for request.data = data; the other
\* operations on the table answer no HTTP request
settings_api_update_material ==
    /\ \E data \in MaterialUpdatePayloads :
       \E validated \in {validate_material_update_input(data)} :
        /\ IF ~validated.ok
           THEN /\ response' = JsonResponse("error" :> validated.error, 400)
                /\ UNCHANGED <<catalog, saving>>
           ELSE IF validated.v.material_id \notin DOMAIN catalog
           THEN /\ response' = JsonResponse("error" :> "Material not found", 404)
                /\ UNCHANGED <<catalog, saving>>
           ELSE LET id == validated.v.material_id
                    m1 == IF ~IsNone(validated.v.current_price)
                          THEN [catalog[id] EXCEPT
                                    !.current_price = validated.v.current_price]
                          ELSE catalog[id]
                    m == IF ~IsNone(validated.v.roll_length)
                         THEN [m1 EXCEPT !.roll_length = validated.v.roll_length]
                         ELSE m1
                IN  /\ saving' = (id :> m)
                    /\ catalog' = SaveAll(catalog, id :> m)
                    /\ response' =
                        JsonResponse([success |-> TRUE, id |-> id,
                                      current_price |->
                                        IF Truthy(MaterialSave(m).current_price)
                                        THEN MaterialSave(m).current_price ELSE None],
                                     200)
    /\ pc' = "updated"
    /\ scrape_run' = NoRun
    /\ UNCHANGED report_vars
    /\ UNCHANGED <<fence_type, args, result, prev_length, prev_result,
                   request, engine_calls, calculations>>

\* base = Decimal(m.current_price or m.default_price)
scrape_base(m) ==
    IF Truthy(m.current_price) THEN Val(m.current_price) ELSE m.default_price

\* abs(hash(name)) % 7 for a material name: str hashes are salted per process,
\* so any of 0..6; the least and the greatest are modelled
HashSeeds == {0, 6}

\* _fallback_delta(base, name) for seed = abs(hash(name)) % 7: base plus
\* seed / 100, mills
fallback_delta(base, seed) == base + seed * 10

\* what the network gives for a material: the price parsed from its source
\* page (None without a source URL, on a failed fetch or without a parsable
\* price), and the seed of its name
ScrapeOutcomes ==
    {[parsed |-> p, seed |-> h] :
        p \in {None} \cup {Some(v) : v \in CurrentPrices \ {0}}, h \in HashSeeds}

\* scrape_prices_now(): every active material with auto-update enabled (the
\* flag is not part of the rows: any set `auto` of active rows) gets the
\* parsed price, or the fallback when there is none, and is saved and counted
\* if the new price differs from base.  Prices stay within MaxPrice.
scrape_prices_now ==
    /\ \E auto \in SUBSET {i \in DOMAIN catalog : catalog[i].is_active} :
       \E env \in [auto -> ScrapeOutcomes] :
        LET base(i) == scrape_base(catalog[i])
            new_price(i) == IF ~IsNone(env[i].parsed) THEN Val(env[i].parsed)
                            ELSE fallback_delta(base(i), env[i].seed)
            changed == {i \in auto : new_price(i) # base(i)}
            instances == [i \in changed |->
                            [catalog[i] EXCEPT !.current_price = Some(new_price(i))]]
        IN  /\ \A i \in auto : new_price(i) <= MaxPrice
            /\ saving' = instances
            /\ catalog' = SaveAll(catalog, instances)
            /\ scrape_run' =
                [mats |-> [i \in auto |->
                            [base |-> base(i), parsed |-> env[i].parsed,
                             previous |-> catalog[i].current_price,
                             new_price |-> new_price(i)]],
                 updated |-> Cardinality(changed)]
    /\ pc' = "scraped"
    /\ response' = NoResponse
    /\ UNCHANGED report_vars
    /\ UNCHANGED <<fence_type, args, result, prev_length, prev_result,
                   request, engine_calls, calculations>>

\* the ensure_staples_material command: get_or_create by name, then repair a
\* missing or zero price and the active flag
ensure_staples_material ==
    /\ LET hits == {i \in DOMAIN catalog : catalog[i].name = STAPLES_MATERIAL_NAME}
           default_price == STAPLES_DEFAULT_PRICE * 10
       IN  IF hits = {}
           THEN LET m == Material(STAPLES_MATERIAL_NAME, default_price,
                                  Some(default_price), None, TRUE)
                    id == Len(catalog) + 1
                IN  /\ Len(catalog) < MaxMaterials
                    /\ saving' = (id :> m)
                    /\ catalog' = SaveAll(catalog, id :> m)
           ELSE LET id == CHOOSE i \in hits : TRUE
                    mat == catalog[id]
                    m1 == IF ~Truthy(mat.current_price)
                          THEN [mat EXCEPT !.current_price = Some(default_price)]
                          ELSE mat
                    m2 == IF m1.default_price = 0
                          THEN [m1 EXCEPT !.default_price = default_price]
                          ELSE m1
                    m == [m2 EXCEPT !.is_active = TRUE]
                IN  IF m # mat
                    THEN /\ saving' = (id :> m)
                         /\ catalog' = SaveAll(catalog, id :> m)
                    ELSE /\ saving' = NoSaves
                         /\ UNCHANGED catalog
    /\ pc' = "ensured"
    /\ response' = NoResponse
    /\ scrape_run' = NoRun
    /\ UNCHANGED report_vars
    /\ UNCHANGED <<fence_type, args, result, prev_length, prev_result,
                   request, engine_calls, calculations>>

\* an empty Material table
InitMaterials ==
    /\ catalog = <<>>
    /\ fence_type = FenceTypeRow("3_wire_electric", 2500, 3, FALSE, None, None, None, None)
    /\ args = NoArgs
    /\ pc = "ready"
    /\ result = NoResult
    /\ prev_length = None
    /\ prev_result = NoResult
    /\ SiteIdle

NextMaterials ==
    \/ material_create
    \/ admin_change_material
    \/ settings_api_update_material
    \/ scrape_prices_now
    \/ ensure_staples_material

SpecMaterials == InitMaterials /\ [][NextMaterials]_vars

----------------------------------------------------------------------------
(* utils.py: combine_duplicate_materials, as generate_pdf and              *)
(* generate_excel call it on the material_costs of a calculation.  A       *)
(* mapping is the sequence of its (key, item) pairs in iteration order;    *)
(* quantities are whole numbers and money is in cents.                     *)

MaxItems == 3

Pair(key, item) == [key |-> key, item |-> item]

\* mutant: grouping by the name as written
norm_exact(name) == name

\* norm(name): (name or '').strip().lower()
norm(name) == lower(strip(name))

\* the position in the mapping m of the pair stored under key
IndexOfKey(m, key) == CHOOSE i \in DOMAIN m : m[i].key = key

\* one turn of the loop over material_costs.items(): acc holds combined and
\* index_by_norm
combine_step(acc, key, item) ==
    LET normalized == norm(item.material)
    IN  IF normalized \in DOMAIN acc.index_by_norm
        THEN LET i == IndexOfKey(acc.combined, acc.index_by_norm[normalized])
                 existing_item == acc.combined[i].item
             IN  [acc EXCEPT !.combined[i].item =
                    [existing_item EXCEPT !.quantity = existing_item.quantity + item.quantity,
                                          !.cost = existing_item.cost + item.cost]]
        ELSE [combined |-> Append(acc.combined,
                                  Pair(key, [material |-> strip(item.material),
                                             unit_price |-> item.unit_price,
                                             quantity |-> item.quantity,
                                             cost |-> item.cost])),
              index_by_norm |-> (normalized :> key) @@ acc.index_by_norm]

RECURSIVE combine_loop(_, _, _)
combine_loop(m, k, acc) ==
    IF k > Len(m) THEN acc
    ELSE combine_loop(m, k + 1, combine_step(acc, m[k].key, m[k].item))

combine_duplicate_materials(m) ==
    combine_loop(m, 1, [combined |-> <<>>, index_by_norm |-> <<>>]).combined

\* line items as a calculation stores them
ReportKeys == {"wire_standard", "wire_top_hot", "posts"}
ReportNames == {"Wire - 2.5mm HT", "wire - 2.5mm ht", " Wire - 2.5mm HT ", "5inch posts"}
ReportItems ==
    {[material |-> n, unit_price |-> p, quantity |-> q, cost |-> p * q] :
        n \in ReportNames, p \in {1250, 13900}, q \in {1, 2}}

\* the mappings of up to MaxItems items under distinct keys, in every order
ReportMappings ==
    UNION {{m \in [1..n -> {Pair(k, i) : k \in ReportKeys, i \in ReportItems}] :
                \A a, b \in 1..n : a # b => m[a].key # m[b].key} :
           n \in 0..Min(MaxItems, Cardinality(ReportKeys))}

\* a stored calculation about to be exported
InitReport ==
    /\ catalog = <<>>
    /\ fence_type = FenceTypeRow("3_wire_electric", 2500, 3, FALSE, None, None, None, None)
    /\ args = NoArgs
    /\ pc = "ready"
    /\ result = NoResult
    /\ prev_length = None
    /\ prev_result = NoResult
    /\ request = NoRequest
    /\ response = NoResponse
    /\ engine_calls = 0
    /\ calculations = <<>>
    /\ saving = NoSaves
    /\ scrape_run = NoRun
    /\ material_costs \in ReportMappings
    /\ combined_materials = <<>>

\* generate_pdf / generate_excel: combined_materials =
\* combine_duplicate_materials(calculation.material_costs)
generate_report ==
    /\ pc = "ready"
    /\ combined_materials' = combine_duplicate_materials(material_costs)
    /\ pc' = "combined"
    /\ UNCHANGED <<catalog, fence_type, args, result, prev_length, prev_result,
                   material_costs>>
    /\ UNCHANGED site_vars

NextReport == generate_report

SpecReport == InitReport /\ [][NextReport]_vars

----------------------------------------------------------------------------
(* Properties of the engine *)

\* a call has returned a dictionary
Returned == pc # "ready" /\ result.status = "ok"

\* ceiling of n / d for n >= 0, d > 0
Ceiling(n, d) == IF n % d = 0 THEN n \div d ELSE (n \div d) + 1

\* v is n / d rounded to a nearest integer
IsRounded(v, n, d) == 2 * (v * d - n) <= d /\ 2 * (n - v * d) <= d

\* the post spacing in effect: the override when supplied, else the fence type's
EffectiveSpacing ==
    IF ~IsNone(args.post_spacing_override) THEN Val(args.post_spacing_override)
    ELSE fence_type.post_spacing

\* the wire count in effect: the override when supplied, else the fence type's
EffectiveWireCount ==
    IF ~IsNone(args.wire_count_override) THEN Val(args.wire_count_override)
    ELSE fence_type.wire_count

\* the roll length of a catalog material: its own when set and non-zero, else
\* the configured fallback
RollLengthOf(m) ==
    IF ~IsNone(catalog[m].roll_length) /\ Val(catalog[m].roll_length) # 0
    THEN Val(catalog[m].roll_length)
    ELSE WIRE_ROLL_LENGTH * 1000

WireRoleKeys == {"wire_standard", "wire_top_hot", "wire_top_barb"}

C2_TotalIsSumOfReturnedItems ==
    Returned =>
        result.total_material_cost =
            SumCosts(result.material_costs, DOMAIN result.material_costs)

\* the top wire type requested, 'standard' when absent
TopWireType ==
    IF IsNone(args.top_wire_type) THEN "standard" ELSE Val(args.top_wire_type)

\* the wire-role keys present in the returned material_costs
WireItems == DOMAIN result.material_costs \cap WireRoleKeys

\* length in cents of `wires` wires along the fence, rounded to 2 decimals
WireLength(wires) == RoundHalfEven(wires * args.fence_length, 10)

\* rolls of material m needed for a length in cents
RollsFor(len, m) == Ceiling(len * 10, RollLengthOf(m))

\* for a hot top wire: wire_standard carries ceil(standard_len / roll) +
\* ceil(hot_len / roll), the hot wire count being the one the result reports
HotQuantityCombined ==
    LET hot == result.insulator_counts.hot_wires
        m == Val(fence_type.wire_material)
    IN  result.material_costs["wire_standard"].quantity =
            RollsFor(WireLength(result.wire_count_used - hot), m)
            + RollsFor(WireLength(hot), m)

\* C3 as claimed: whenever the top wire type is 'hot' the result holds exactly
\* one wire-role line item, wire_standard, with the combined quantity.
C3_HotAlwaysOneWireItem ==
    (Returned /\ TopWireType = "hot") =>
        /\ WireItems = {"wire_standard"}
        /\ HotQuantityCombined

\* C3 amended: with a hot top wire there is never a wire_top_hot item, and when
\* the fence type has a wire material, the wire count in effect is positive and
\* the fence is at least 0.01 m long, wire_standard is the one wire-role item
\* and its quantity is ceil(standard_len / roll) + ceil(hot_len / roll).
C3_HotWireCombined ==
    (Returned /\ TopWireType = "hot") =>
        /\ "wire_top_hot" \notin DOMAIN result.material_costs
        /\ (/\ ~IsNone(fence_type.wire_material)
            /\ EffectiveWireCount > 0
            /\ args.fence_length >= 10) =>
                /\ WireItems = {"wire_standard"}
                /\ HotQuantityCombined

\* C3 witness: 3 wires of which 2 hot over 520 m of 500 m rolls: 2 + 3 rolls
C3_Witness ==
    /\ Returned /\ TopWireType = "hot" /\ args.fence_length = 520000
    /\ result.wire_count_used = 3
    /\ result.insulator_counts.hot_wires = 2
    /\ WireItems = {"wire_standard"}
    /\ result.material_costs["wire_standard"].quantity = 5

\* the fence type has a wire material and a different barb wire material
DistinctBarbMaterial ==
    /\ ~IsNone(fence_type.barb_wire_material)
    /\ ~IsNone(fence_type.wire_material)
    /\ Val(fence_type.barb_wire_material) # Val(fence_type.wire_material)

\* C4 as claimed: whenever the top wire type is 'barb' and the fence type has a
\* distinct barb wire material, the wire-role items are exactly wire_standard
\* and wire_top_barb.
C4_BarbAlwaysTwoWireItems ==
    (Returned /\ TopWireType = "barb" /\ DistinctBarbMaterial) =>
        WireItems = {"wire_standard", "wire_top_barb"}

\* C4 amended: the same, when in addition the wire count in effect is at least
\* 2 (one barb wire and at least one standard wire) and the fence is at least
\* 0.01 m long.
C4_BarbWireSeparate ==
    (/\ Returned /\ TopWireType = "barb" /\ DistinctBarbMaterial
     /\ EffectiveWireCount >= 2 /\ args.fence_length >= 10) =>
        WireItems = {"wire_standard", "wire_top_barb"}

\* C4 witness: a barb top wire priced from the barb material next to the
\* standard wire
C4_Witness ==
    /\ Returned /\ TopWireType = "barb" /\ DistinctBarbMaterial
    /\ EffectiveWireCount >= 2 /\ args.fence_length = 100000
    /\ WireItems = {"wire_standard", "wire_top_barb"}
    /\ result.material_costs["wire_top_barb"].ref = fence_type.barb_wire_material

\* the line items of the result priced from a material with a price override
OverriddenItems ==
    {k \in DOMAIN result.material_costs :
        /\ ~IsNone(result.material_costs[k].ref)
        /\ ToString(Val(result.material_costs[k].ref)) \in DOMAIN args.price_overrides}

OverrideFor(k) ==
    args.price_overrides[ToString(Val(result.material_costs[k].ref))]

\* C5 as claimed: the unit_price of every line item that references a material
\* with a price override equals the override value.
C5_UnitPriceIsOverride ==
    Returned =>
        \A k \in OverriddenItems :
            result.material_costs[k].unit_price * 10 = OverrideFor(k)

\* C5 amended: the unit_price of every such line item equals the override
\* value rounded to 2 decimals, whatever the material's current and default
\* price.
C5_UnitPriceIsRoundedOverride ==
    Returned =>
        \A k \in OverriddenItems :
            IsRounded(result.material_costs[k].unit_price, OverrideFor(k), 10)

\* C5 witness: the wire material overridden to 150.00 while the catalog says 139.00
C5_Witness ==
    /\ Returned
    /\ "wire_standard" \in OverriddenItems
    /\ OverrideFor("wire_standard") = 150000
    /\ catalog[2].current_price = Some(139000)
    /\ result.material_costs["wire_standard"].unit_price = 15000

\* C6: for fence length 0, whatever the fence type, catalog and options, the
\* call returns without raising, with posts_required = 1,
\* wire_length_meters = 0 and wire_rolls_required = 0.
C6_ZeroLength ==
    (pc # "ready" /\ args.fence_length = 0) =>
        /\ result.status = "ok"
        /\ result.posts_required = 1
        /\ result.wire_length_meters = 0
        /\ result.wire_rolls_required = 0

\* C6 witness: a zero-length deer fence with the outrigger requested has returned
C6_Witness ==
    /\ pc = "returned" /\ args.fence_length = 0
    /\ args.electric_outrigger /\ result.status = "ok"
    /\ result.posts_required = 1

\* two calls have returned, the second for a fence at least as long as the
\* first, every other input being the same
Lengthened ==
    /\ pc = "recalculated"
    /\ prev_result.status = "ok" /\ result.status = "ok"
    /\ Val(prev_length) <= args.fence_length

\* C7: for fence lengths L1 <= L2 and all other inputs equal (prices being
\* non-negative), posts_required, wire_rolls_required and total_cost of the
\* result for L1 are at most those of the result for L2.
C7_MonotoneInLength ==
    Lengthened =>
        /\ prev_result.posts_required <= result.posts_required
        /\ prev_result.wire_rolls_required <= result.wire_rolls_required
        /\ prev_result.total_cost <= result.total_cost

\* C7 witness: a fence lengthened from 100 m to 520 m needing more posts, more
\* wire rolls and more money
C7_Witness ==
    /\ Lengthened /\ Val(prev_length) = 100000 /\ args.fence_length = 520000
    /\ prev_result.posts_required < result.posts_required
    /\ prev_result.wire_rolls_required < result.wire_rolls_required
    /\ prev_result.total_cost < result.total_cost

\* C9: with the top wire type 'standard' and a wire material, the result has
\* wire_length_meters = (wire count in effect x fence length) rounded to 2
\* decimals and wire_rolls_required = ceil(wire_length_meters / roll length),
\* the roll length being the wire material's when set and non-zero, else
\* WIRE_ROLL_LENGTH.
C9_StandardWireRolls ==
    (Returned /\ TopWireType = "standard" /\ ~IsNone(fence_type.wire_material)) =>
        /\ IsRounded(result.wire_length_meters,
                     EffectiveWireCount * args.fence_length, 10)
        /\ result.wire_rolls_required =
            Ceiling(result.wire_length_meters * 10,
                    RollLengthOf(Val(fence_type.wire_material)))

\* C9 witness: 2 wires over 100 m with 500 m rolls: 200.00 m and 1 roll
C9_Witness ==
    /\ Returned /\ TopWireType = "standard" /\ fence_type.wire_material = Some(2)
    /\ catalog[2].roll_length = Some(500000)
    /\ EffectiveWireCount = 2 /\ args.fence_length = 100000
    /\ result.wire_length_meters = 20000
    /\ result.wire_rolls_required = 1

\* the labor rate and build rate in effect: supplied, or the configured defaults
EffectiveLaborRate ==
    IF ~IsNone(args.labor_rate) THEN Val(args.labor_rate)
    ELSE LABOR_RATE_PER_HOUR * 1000
EffectiveBuildRate ==
    IF ~IsNone(args.build_rate) THEN Val(args.build_rate)
    ELSE BUILD_RATE_METERS_PER_HOUR * 1000

\* C10: labor_hours is fence_length / build_rate rounded to 2 decimals,
\* labor_cost is labor_hours x labor_rate rounded to 2 decimals, and
\* total_cost is total_material_cost + labor_cost.
C10_LaborAndTotal ==
    Returned =>
        /\ IsRounded(result.labor_hours, 100 * args.fence_length, EffectiveBuildRate)
        /\ IsRounded(result.labor_cost, result.labor_hours * EffectiveLaborRate, 1000)
        /\ result.total_cost = result.total_material_cost + result.labor_cost

\* C10 witness: 33.335 m at the default 20 m/h and 55.00/h: 1.67 h, 91.85
C10_Witness ==
    /\ Returned /\ args.fence_length = 33335
    /\ IsNone(args.labor_rate) /\ IsNone(args.build_rate)
    /\ result.labor_hours = 167 /\ result.labor_cost = 9185
    /\ result.total_cost = result.total_material_cost + 9185

\* C11 as claimed: every line item's cost is its reported unit_price times its
\* reported quantity, rounded to 2 decimals (the product of a 2-decimal price
\* and a whole quantity is its own rounding).
C11_CostIsUnitPriceTimesQuantity ==
    Returned =>
        \A k \in DOMAIN result.material_costs :
            result.material_costs[k].cost =
                result.material_costs[k].unit_price * result.material_costs[k].quantity

\* the outrigger wire's material: the active catalog row named 'Electric
\* Outrigger Wire' (whatever the case) of lowest id, else the fence type's
\* wire material
OutriggerWireRows ==
    {i \in DOMAIN catalog :
        catalog[i].is_active /\ lower(catalog[i].name) = "electric outrigger wire"}

OutriggerWire ==
    IF OutriggerWireRows # {}
    THEN CHOOSE i \in OutriggerWireRows : \A j \in OutriggerWireRows : i <= j
    ELSE Val(fence_type.wire_material)

\* a deer fence of positive length with the outrigger requested, an outrigger
\* wire material being available
OutriggerCase ==
    /\ Returned /\ args.netting_type = "deer" /\ args.electric_outrigger
    /\ args.fence_length > 0
    /\ (OutriggerWireRows # {} \/ ~IsNone(fence_type.wire_material))

\* C14: in that case the result has electric_outrigger true, an outrigger_wire
\* line item, and electric_outrigger_details.wire_rolls =
\* ceil(fence_length / outrigger wire roll length) > 0.
C14_OutriggerWire ==
    OutriggerCase =>
        /\ result.electric_outrigger
        /\ "outrigger_wire" \in DOMAIN result.material_costs
        /\ "wire_rolls" \in DOMAIN result.electric_outrigger_details
        /\ result.electric_outrigger_details.wire_rolls > 0
        /\ result.electric_outrigger_details.wire_rolls =
            Ceiling(args.fence_length, RollLengthOf(OutriggerWire))

\* C14 witness: 520 m of outrigger wire in 400 m rolls: 2 rolls
C14_Witness ==
    /\ OutriggerCase /\ args.fence_length = 520000
    /\ OutriggerWireRows # {} /\ RollLengthOf(OutriggerWire) = 400000
    /\ result.material_costs["outrigger_wire"].quantity = 2
    /\ result.electric_outrigger_details.wire_rolls = 2

ActiveMaterialNamed(name) ==
    \E i \in DOMAIN catalog : catalog[i].is_active /\ catalog[i].name = name

InsulatorKeys == {"insulators_bullnose", "insulators_claw"}

\* C16: with a hot top wire insulator_counts reports, for h hot wires,
\* bullnose = (2, or min(posts, 2) if posts < 2) x h and claw =
\* max(posts - 2, 0) x h, and each insulator line item is present exactly when
\* its active catalog material exists and its count is positive; otherwise
\* insulator_counts is empty and no insulator line item is present.
C16_Insulators ==
    Returned =>
        LET posts == result.posts_required
            ic == result.insulator_counts
            mc == result.material_costs
        IN  IF TopWireType = "hot"
            THEN /\ ic.bullnose =
                        (IF posts < 2 THEN Min(posts, 2) ELSE 2) * ic.hot_wires
                 /\ ic.claw = Max(posts - 2, 0) * ic.hot_wires
                 /\ "insulators_bullnose" \in DOMAIN mc <=>
                        (ActiveMaterialNamed("Bullnose Insulator") /\ ic.bullnose > 0)
                 /\ "insulators_claw" \in DOMAIN mc <=>
                        (ActiveMaterialNamed("Claw Insulator") /\ ic.claw > 0)
                 /\ "insulators_bullnose" \in DOMAIN mc =>
                        mc["insulators_bullnose"].quantity = ic.bullnose
                 /\ "insulators_claw" \in DOMAIN mc =>
                        mc["insulators_claw"].quantity = ic.claw
            ELSE /\ DOMAIN ic = {}
                 /\ DOMAIN mc \cap InsulatorKeys = {}

\* C16 witness: 2 hot wires on 14 posts: 4 bullnose and 24 claw insulators,
\* both as line items
C16_Witness ==
    /\ Returned /\ TopWireType = "hot" /\ result.posts_required = 14
    /\ result.insulator_counts.hot_wires = 2
    /\ result.insulator_counts.bullnose = 4
    /\ result.insulator_counts.claw = 24
    /\ InsulatorKeys \subseteq DOMAIN result.material_costs

\* C17 as claimed: with no build_rate supplied labor_hours is
\* fence_length / 200 rounded to 2 decimals (100 m gives 0.5 h).
C17_DefaultBuildRate200 ==
    (Returned /\ IsNone(args.build_rate)) =>
        IsRounded(result.labor_hours, 100 * args.fence_length, 200 * 1000)

\* the line items that are not wire items
OtherItems == DOMAIN result.material_costs \ WireRoleKeys

\* C20 as claimed: every line item other than the wire items has a non-zero
\* quantity and is priced from a catalog material that is active.
C20_OtherItemsNonZeroWithMaterial ==
    Returned =>
        \A k \in OtherItems :
            /\ result.material_costs[k].quantity # 0
            /\ ~IsNone(result.material_costs[k].ref)
            /\ catalog[Val(result.material_costs[k].ref)].is_active

\* C19: an invocation of calculate_fence_requirements leaves the fence type,
\* every Material row (price, roll length, flags) and the caller's
\* price_overrides mapping as they were before the call.
C19_EngineLeavesInputsUnchanged ==
    [][(pc' # pc) =>
        /\ catalog' = catalog
        /\ fence_type' = fence_type
        /\ args'.price_overrides = args.price_overrides]_vars

\* C19 witness: two invocations with the post material overridden to 15.00;
\* the catalog still lists the post at its own price, the mapping still holds
\* the override, and both invocations priced the posts at the override
C19_Witness ==
    /\ pc = "recalculated"
    /\ result.status = "ok"
    /\ prev_result.status = "ok"
    /\ "1" \in DOMAIN args.price_overrides
    /\ catalog[1].current_price # Some(args.price_overrides["1"])
    /\ "posts" \in DOMAIN result.material_costs
    /\ "posts" \in DOMAIN prev_result.material_costs
    /\ result.material_costs["posts"].unit_price * 10 = args.price_overrides["1"]
    /\ prev_result.material_costs["posts"].unit_price
         = result.material_costs["posts"].unit_price

\* the price of material row m as the resolver is described: the override if
\* there is one, else the current price if the row has one, else the default
ResolvedPrice(m) ==
    IF ToString(m) \in DOMAIN args.price_overrides
    THEN args.price_overrides[ToString(m)]
    ELSE IF ~IsNone(catalog[m].current_price)
         THEN Val(catalog[m].current_price)
    ELSE catalog[m].default_price

\* C21 as claimed: every line item priced from a material carries, as unit
\* price, the override if the material has one, else the material's current
\* price whenever it has one (zero included), else its default price.
C21_PriceResolver ==
    Returned =>
        \A k \in DOMAIN result.material_costs :
            ~IsNone(result.material_costs[k].ref) =>
                result.material_costs[k].unit_price
                    = quantize_2(ResolvedPrice(Val(result.material_costs[k].ref)), 10)

\* the special wire count as the wire composition is described: for 'hot' the
\* smaller of the supplied hot wire count (zero included) and the total
SpecialWiresAsDescribed(t, hot_wire_count, total) ==
    IF t = "hot"
    THEN IF ~IsNone(hot_wire_count) THEN Min(Val(hot_wire_count), total)
         ELSE IF total > 0 THEN 1 ELSE 0
    ELSE IF t = "barb" THEN IF total > 0 THEN 1 ELSE 0
    ELSE 0

\* C22 as claimed: the total wire count is the override when supplied, else
\* the fence type's; the special count is min(hot_wire_count, total) for 'hot'
\* whenever a hot wire count is supplied (zero included), else 1 for 'hot' or
\* 'barb' with wires and 0 otherwise; standard + special = total with
\* 0 <= special <= total; the hot wires reported with the insulators are the
\* special count.
C22_WireComposition ==
    Returned =>
        LET total == total_wires(fence_type, args)
            special == special_wires(twt(args), args.hot_wire_count, total)
            standard == standard_wires(total, special)
        IN  /\ result.wire_count_used = total
            /\ total = IF ~IsNone(args.wire_count_override)
                       THEN Val(args.wire_count_override) ELSE fence_type.wire_count
            /\ special = SpecialWiresAsDescribed(twt(args), args.hot_wire_count, total)
            /\ 0 <= special /\ special <= total
            /\ standard + special = total
            /\ "hot_wires" \in DOMAIN result.insulator_counts =>
                    result.insulator_counts.hot_wires
                        = SpecialWiresAsDescribed(twt(args), args.hot_wire_count, total)

\* C23: the staple counts of a result are those of its posts and wires: all
\* wires are stapled, or only the non-hot ones when the top wire is 'hot';
\* min(posts, 2) posts are end posts and the rest line posts; total_staples =
\* line posts x stapled wires x per-line rate + end posts x stapled wires x
\* per-end rate + posts x per-netting rate when the fence type has a netting
\* material; boxes = ceil(total_staples / staples per box), the latter being
\* the positive override or STAPLES_PER_BOX.
C23_Staples ==
    Returned =>
        LET c == result.staple_counts
            posts == result.posts_required
            stapled == IF twt(args) = "hot"
                       THEN result.wire_count_used - result.insulator_counts.hot_wires
                       ELSE result.wire_count_used
            ends == Min(posts, 2)
            lines == posts - ends
            per_box == IF ~IsNone(args.staples_per_box) /\ Val(args.staples_per_box) > 0
                       THEN Val(args.staples_per_box) ELSE STAPLES_PER_BOX
        IN  /\ c.line_staples = lines * stapled * STAPLES_PER_WIRE_PER_LINE_POST
            /\ c.end_staples = ends * stapled * STAPLES_PER_WIRE_PER_END_POST
            /\ c.netting_staples = IF ~IsNone(fence_type.netting_material)
                                   THEN posts * STAPLES_PER_POST_FOR_NETTING ELSE 0
            /\ c.total_staples = c.line_staples + c.end_staples + c.netting_staples
            /\ c.staples_per_box_used = per_box
            /\ c.boxes = Ceiling(c.total_staples, per_box)

\* C23 witness: a hot top wire beside stapled standard wires on a netting
\* fence, with 50 staples to the box: more than one box
C23_Witness ==
    /\ Returned
    /\ twt(args) = "hot"
    /\ result.insulator_counts.hot_wires = 1
    /\ result.wire_count_used = 2
    /\ result.posts_required > 2
    /\ result.staple_counts.line_staples > 0
    /\ result.staple_counts.netting_staples > 0
    /\ result.staple_counts.staples_per_box_used = 50
    /\ result.staple_counts.boxes >= 2

\* an active material carries the name, whatever the case of its letters
ActiveMaterialNamedIexact(name) ==
    \E i \in DOMAIN catalog : catalog[i].is_active /\ lower(catalog[i].name) = name

\* the number of intervals of interval_m metres in the fence, at least 2
IntervalCount(interval) == Max(Ceiling(args.fence_length, interval * 1000), 2)

\* C24: a call that only lacks a strainer, stay-post or triplex material
\* returns; every result has a strainer_recommendation with interval 50 m for
\* deer netting and 100 m otherwise and total max(ceil(L / interval), 2) for
\* L > 0 and 0 for L = 0; a strainers item carries that total, a stay_posts
\* item the same count floored at 2, a triplex item ceil(L / 500); and each
\* of these items is absent exactly when it has no material (or the fence
\* type needs no strainers, or L = 0 for stay posts and triplex).
C24_StrainersStayPostsTriplex ==
    /\ (pc # "ready"
          /\ \/ ~ActiveMaterialNamedIexact("2.5/7 inch strainer")
             \/ ~ActiveMaterialNamedIexact("5 inch stay posts")
             \/ ~ActiveMaterialNamed("Triplex")) => result.status = "ok"
    /\ Returned =>
        LET L == args.fence_length
            interval == IF result.netting_type = "deer" THEN 50 ELSE 100
            rec == result.strainer_recommendation
            items == result.material_costs
            stay == IF result.netting_type = "deer"
                       /\ ActiveMaterialNamedIexact("deer posts")
                    THEN TRUE ELSE ActiveMaterialNamedIexact("5 inch stay posts")
        IN  /\ rec.interval_meters_used = interval * 1000
            /\ rec.recommended_strainers_total
                  = IF L > 0 THEN IntervalCount(interval) ELSE 0
            /\ "strainers" \in DOMAIN items
                  <=> (fence_type.requires_strainers
                       /\ ActiveMaterialNamedIexact("2.5/7 inch strainer"))
            /\ "strainers" \in DOMAIN items =>
                  items["strainers"].quantity = rec.recommended_strainers_total
            /\ "stay_posts" \in DOMAIN items <=> (L > 0 /\ stay)
            /\ "stay_posts" \in DOMAIN items =>
                  items["stay_posts"].quantity = IntervalCount(interval)
            /\ "triplex" \in DOMAIN items
                  <=> (L > 0 /\ ActiveMaterialNamed("Triplex"))
            /\ "triplex" \in DOMAIN items =>
                  items["triplex"].quantity = Ceiling(L, 500000)

\* C24 witness: a 520 m fence without deer netting and with no active
\* strainer material: no strainers item, 6 strainers recommended all the
\* same, 6 stay posts and 2 triplex
C24_Witness ==
    /\ Returned
    /\ args.fence_length = 520000
    /\ result.netting_type # "deer"
    /\ fence_type.requires_strainers
    /\ ~ActiveMaterialNamedIexact("2.5/7 inch strainer")
    /\ "strainers" \notin DOMAIN result.material_costs
    /\ result.strainer_recommendation.recommended_strainers_total = 6
    /\ result.material_costs["stay_posts"].quantity = 6
    /\ result.material_costs["triplex"].quantity = 2

\* the result of the same invocation with netting type nt instead
WithNettingType(nt) ==
    calculate_fence_requirements(fence_type, catalog, [args EXCEPT !.netting_type = nt])

\* the 'netting' line item of result r, None when it has none
NettingItemOf(r) ==
    IF "netting" \in DOMAIN r.material_costs THEN Some(r.material_costs["netting"])
    ELSE None

\* C28: netting_rolls_required is ceil(fence length / roll length of the fence
\* type's netting material, 50 m when unset or zero), 0 without a netting
\* material; and the invocations that differ from the one made only in the
\* netting type return the same netting_rolls_required and the same 'netting'
\* line item.
C28_NettingTypeDoesNotAffectRolls ==
    Returned =>
        /\ result.netting_rolls_required
             = IF IsNone(fence_type.netting_material) THEN 0
               ELSE LET roll == catalog[Val(fence_type.netting_material)].roll_length
                    IN  Ceiling(args.fence_length,
                                IF IsNone(roll) \/ Val(roll) = 0 THEN 50000 ELSE Val(roll))
        /\ "netting" \in DOMAIN result.material_costs =>
                result.material_costs["netting"].quantity = result.netting_rolls_required
        /\ \A nt \in {"none", "sheep", "deer"} \ {result.netting_type} :
            \A other \in {WithNettingType(nt)} :
                /\ other.status = "ok"
                /\ other.netting_rolls_required = result.netting_rolls_required
                /\ NettingItemOf(other) = NettingItemOf(result)

\* C28 witness: 250 m of deer netting on a material without a roll length: 5
\* rolls of the default 50 m, although the netting type requested is 'none'
C28_Witness ==
    /\ Returned
    /\ args.fence_length = 250000
    /\ args.netting_type = "none"
    /\ ~IsNone(fence_type.netting_material)
    /\ ~Truthy(catalog[Val(fence_type.netting_material)].roll_length)
    /\ result.netting_rolls_required = 5
    /\ result.material_costs["netting"].quantity = 5
    /\ WithNettingType("deer").netting_height_cm # result.netting_height_cm

\* the wire-role line items of the result
WireItemKeys == DOMAIN result.material_costs \cap {"wire_standard", "wire_top_hot", "wire_top_barb"}

\* the quantity of line item k, 0 when the result has no such item
QuantityOf(k) ==
    IF k \in DOMAIN result.material_costs THEN result.material_costs[k].quantity ELSE 0

\* C30: wire_rolls_required is the sum of the quantities of the wire-role
\* line items of the result ('wire_standard', 'wire_top_hot',
\* 'wire_top_barb'), and is 0 exactly when there is none.
C30_WireRollsAreItemQuantities ==
    Returned =>
        /\ result.wire_rolls_required
             = QuantityOf("wire_standard") + QuantityOf("wire_top_hot")
               + QuantityOf("wire_top_barb")
        /\ result.wire_rolls_required = 0 <=> WireItemKeys = {}

\* C30 witness: 520 m with a barb top wire on its own material: 2 rolls of
\* standard wire and 3 of barb wire, 5 in all
C30_Witness ==
    /\ Returned
    /\ args.fence_length = 520000
    /\ WireItemKeys = {"wire_standard", "wire_top_barb"}
    /\ result.material_costs["wire_standard"].quantity = 2
    /\ result.material_costs["wire_top_barb"].quantity = 3
    /\ result.wire_rolls_required = 5

----------------------------------------------------------------------------
(* Properties of combine_duplicate_materials *)

\* the items of material_costs whose name, trimmed and lower-cased, is n
GroupOf(n) == {i \in DOMAIN material_costs : lower(strip(material_costs[i].item.material)) = n}

RECURSIVE SumOver(_, _, _)
\* the sum of field f of the items of mapping m at the positions in S
SumOver(m, S, f) ==
    IF S = {} THEN 0
    ELSE LET i == CHOOSE j \in S : TRUE
         IN  m[i].item[f] + SumOver(m, S \ {i}, f)

\* C27: the mapping returned for material_costs has exactly one entry per
\* distinct trimmed, lower-cased material name; the entry is stored under the
\* key of the first item of that name, its quantity and cost are the sums
\* over the items of that name and its unit_price is that of the first; all
\* costs add up to the same total; and material_costs itself is left as it
\* was.
C27_CombineDuplicates ==
    /\ [](pc = "combined" =>
            /\ Len(combined_materials)
                 = Cardinality({lower(strip(material_costs[i].item.material)) :
                                  i \in DOMAIN material_costs})
            /\ \A c \in DOMAIN combined_materials :
                  LET group == GroupOf(lower(strip(combined_materials[c].item.material)))
                      first == CHOOSE i \in group : \A j \in group : i <= j
                  IN  /\ group # {}
                      /\ combined_materials[c].key = material_costs[first].key
                      /\ combined_materials[c].item.unit_price = material_costs[first].item.unit_price
                      /\ combined_materials[c].item.quantity = SumOver(material_costs, group, "quantity")
                      /\ combined_materials[c].item.cost = SumOver(material_costs, group, "cost")
            /\ \A c, d \in DOMAIN combined_materials :
                  c # d => lower(strip(combined_materials[c].item.material))
                            # lower(strip(combined_materials[d].item.material))
            /\ SumOver(combined_materials, DOMAIN combined_materials, "cost")
                 = SumOver(material_costs, DOMAIN material_costs, "cost"))
    /\ [][material_costs' = material_costs]_vars

\* C27 witness: three items, the first and third of one material written in
\* two ways and at two unit prices, combined into two entries
C27_Witness ==
    /\ pc = "combined"
    /\ Len(material_costs) = 3
    /\ material_costs[1].item.material = " Wire - 2.5mm HT "
    /\ material_costs[2].item.material = "5inch posts"
    /\ material_costs[3].item.material = "wire - 2.5mm ht"
    /\ material_costs[1].item.unit_price # material_costs[3].item.unit_price
    /\ Len(combined_materials) = 2
    /\ combined_materials[1].key = material_costs[1].key
    /\ combined_materials[1].item.unit_price = material_costs[1].item.unit_price
    /\ combined_materials[1].item.quantity
         = material_costs[1].item.quantity + material_costs[3].item.quantity

----------------------------------------------------------------------------
(* Properties of the calculate view *)

\* the view has answered a POST whose body was read as a payload
Answered ==
    /\ pc = "responded" /\ request.method = "POST"
    /\ (request.content_type = "application/json" => request.json_ok)

\* the rows of the FenceCalculation table with primary key pk
CalculationsWithPk(pk) ==
    {i \in DOMAIN calculations : calculations[i].pk = pk}

\* C12 as claimed: a POST whose payload passes validate_fence_calculation_input,
\* the fence type for it being in the catalog, is answered with status 200 and
\* posts_required, wire_rolls_required, total_cost and calculation_id, and a
\* FenceCalculation row with that id exists.
C12_ValidPostReturns200 ==
    (/\ Answered
     /\ validate_fence_calculation_input(request.data).ok
     /\ fence_type.name \in {"2_wire_electric", "deer"}) =>
        /\ response.status = 200
        /\ {"posts_required", "wire_rolls_required", "total_cost", "calculation_id"}
                \subseteq DOMAIN response.body
        /\ CalculationsWithPk(response.body["calculation_id"]) # {}

\* the text of a payload field, "" when the field is missing or no string
TextOf(key) ==
    IF key \in DOMAIN request.data /\ request.data[key].t = "str"
    THEN request.data[key].s ELSE ""

\* payloads the input contract rejects: a fence length that is missing, not a
\* number, below 0.01 or above 50000; a netting type or top wire type that is
\* no known choice; a wire count that is no integer or above 20; price
\* overrides that are no mapping
BadFenceLength ==
    \/ "fence_length" \notin DOMAIN request.data
    \/ request.data["fence_length"].t # "str"
    \/ TextOf("fence_length") \in {"", "invalid", "0", "0.005", "-5", "50000.01"}

BadChoice ==
    \/ TextOf("netting_type") = "goat"
    \/ TextOf("top_wire_type") = "electric"

BadWireCount == TextOf("wire_count") \in {"2.5", "21"}

BadPriceOverrides ==
    /\ "price_overrides" \in DOMAIN request.data
    /\ request.data["price_overrides"].t # "dict"

FailsValidation == BadFenceLength \/ BadChoice \/ BadWireCount \/ BadPriceOverrides

----------------------------------------------------------------------------
(* Properties of the Material table *)

\* C18: every saved Material has a current_price; a save of an instance
\* without a current_price stores its default_price as the current price, and
\* a save of an instance with a current_price stores that price unchanged,
\* whatever its default_price.
C18_CurrentPriceMaterialised ==
    /\ \A i \in DOMAIN catalog : ~IsNone(catalog[i].current_price)
    /\ \A i \in DOMAIN saving :
        IF IsNone(saving[i].current_price)
        THEN catalog[i].current_price = Some(saving[i].default_price)
        ELSE catalog[i].current_price = saving[i].current_price

\* C18 witness: a material created at default price 139.00 without a current
\* price has had its default price changed to 139.06 and been saved again:
\* its current price is still 139.00
C18_Witness ==
    /\ pc = "changed"
    /\ \E i \in DOMAIN saving :
        /\ saving[i].default_price = 139060
        /\ saving[i].current_price = Some(139000)
        /\ catalog[i].default_price = 139060
        /\ catalog[i].current_price = Some(139000)

\* the validated data of the request being answered
ValidatedData == validate_fence_calculation_input(request.data).v

\* the request was answered and not rejected as invalid
Accepted == Answered /\ response.status # 400

\* C25 as claimed: every accepted request that gives both a hot wire count
\* (with top wire type 'hot') and a wire count has hot_wire_count no greater
\* than the wire count, a wire count of 0 (deer netting) included.
C25_HotWiresWithinWireCount ==
    (Accepted /\ ~IsNone(ValidatedData.hot_wire_count)
              /\ ~IsNone(ValidatedData.wire_count_override)) =>
        Val(ValidatedData.hot_wire_count) <= Val(ValidatedData.wire_count_override)

\* C26 as claimed: every accepted request carries price overrides that map
\* material ids to non-negative prices.
C26_PriceOverridesNonNegative ==
    Accepted =>
        \A k \in DOMAIN ValidatedData.price_overrides :
            ValidatedData.price_overrides[k] >= 0

----------------------------------------------------------------------------
(* Properties of the price scraper *)

\* C29 as claimed: after a run of scrape_prices_now, every selected material
\* for which no price was parsed has a new current price that differs from its
\* previous one and was saved, the count returned is the number of materials
\* saved, and no material outside the selection was saved.
C29_FallbackAlwaysUpdates ==
    pc = "scraped" =>
        /\ \A i \in DOMAIN scrape_run.mats :
            IsNone(scrape_run.mats[i].parsed) =>
                /\ i \in DOMAIN saving
                /\ catalog[i].current_price # scrape_run.mats[i].previous
        /\ scrape_run.updated = Cardinality(DOMAIN saving)
        /\ DOMAIN saving \subseteq DOMAIN scrape_run.mats

====
